---- MODULE Spec2Model ----
(***************************************************************************)
(* A model of the rlox bytecode virtual machine (src/rlox/src/vm.rs), its  *)
(* garbage-collected heap (src/rlox/src/gc.rs), the object and value       *)
(* model (object.rs, types.rs) and the parts of the single-pass compiler   *)
(* (compiler.rs) that decide which instructions a function ends with.      *)
(*                                                                         *)
(* Conventions.  Rust indices are 0-based and are kept 0-based here: a     *)
(* handle h names heap slot objects[h + 1], a frame's slot s names         *)
(* stack[s + 1], an ip p names code[p + 1].  A Value is a record           *)
(* [t |-> variant, v |-> payload] whose payload is always an integer (a    *)
(* number, 0/1 for a boolean, a handle for a heap reference, an id for a   *)
(* native function).  Numbers are the integer-valued f64 values.           *)
(***************************************************************************)
EXTENDS Integers, Sequences, FiniteSets, TLC

VARIABLES
    objects,          \* Gc.objects: Vec<Option<GcObject>>
    free_slots,       \* Gc.free_slots
    strings,          \* Gc.strings: the intern table, content -> handle
    bytes_allocated,  \* Gc.bytes_allocated
    next_gc,          \* Gc.next_gc
    grey_stack,       \* Gc.grey_stack
    stack,            \* Vm.stack
    globals,          \* Vm.globals: Table, handle of the name -> Value
    frames,           \* Vm.frames: Vec<CallFrame>
    open_upvalues,    \* Vm.open_upvalues
    init_string,      \* Vm.init_string
    status,           \* where the process is: idle, running, ok, runtime_error,
                      \* compile_error, panic (abort), exit (process::exit)
    message,          \* the last message written to stderr by runtime_error or a panic
    output,           \* the lines written to stdout by PRINT
    stress,           \* the build-time feature debug_gc_stress
    runs,             \* how many interpret calls this VM has served
    gc_cycles,        \* how many collections ran since Gc::new (history)
    parser,           \* the Parser of the last compile when it ended, with what
                      \* it reported (history)
    last_op           \* what the last step did (history): the instruction executed

vars == <<objects, free_slots, strings, bytes_allocated, next_gc, grey_stack,
          stack, globals, frames, open_upvalues, init_string, status, message,
          output, stress, runs, gc_cycles, parser, last_op>>

-----------------------------------------------------------------------------
(* Bounds of the model. *)

MaxRuns == 2

-----------------------------------------------------------------------------
(* Values (types.rs) *)

Number(n) == [t |-> "Number", v |-> n]
Bool(b) == [t |-> "Bool", v |-> IF b THEN 1 ELSE 0]
Nil == [t |-> "Nil", v |-> 0]
VString(h) == [t |-> "VString", v |-> h]
FunctionV(h) == [t |-> "Function", v |-> h]
ClosureV(h) == [t |-> "Closure", v |-> h]
ClassV(h) == [t |-> "Class", v |-> h]
InstanceV(h) == [t |-> "Instance", v |-> h]
BoundMethodV(h) == [t |-> "BoundMethod", v |-> h]
ArrayV(h) == [t |-> "Array", v |-> h]
NativeFnV(id) == [t |-> "NativeFn", v |-> id]
NoneV == [t |-> "None", v |-> 0]        \* Option<Value>::None

\* Value::type_of
type_of(v) ==
    CASE v.t = "Array" -> "array" [] v.t = "Bool" -> "bool"
      [] v.t = "BoundMethod" -> "bound method" [] v.t = "Class" -> "class"
      [] v.t = "Closure" -> "closure" [] v.t = "Function" -> "function"
      [] v.t = "Instance" -> "instance" [] v.t = "NativeFn" -> "native function"
      [] v.t = "Nil" -> "nil" [] v.t = "Number" -> "number" [] OTHER -> "string"

\* #[derive(PartialEq)] on Value; NativeFn's eq is always false.
ValueEq(a, b) == a.t = b.t /\ a.t # "NativeFn" /\ a.v = b.v

At(s, i) == s[i + 1]
Last(s) == s[Len(s)]
Front(s) == SubSeq(s, 1, Len(s) - 1)
Take(s, n) == SubSeq(s, 1, n)
RECURSIVE SetToSeq(_)
SetToSeq(S) ==
    IF S = {} THEN << >>
    ELSE LET m == CHOOSE x \in S : \A y \in S : x <= y
         IN <<m>> \o SetToSeq(S \ {m})

RECURSIVE SumSeq(_)
SumSeq(s) == IF s = << >> THEN 0 ELSE s[1] + SumSeq(Tail(s))

\* HashMap::insert / remove on a Table
TableInsert(tbl, k, v) == [x \in (DOMAIN tbl) \cup {k} |-> IF x = k THEN v ELSE tbl[x]]
TableRemove(tbl, k) == [x \in (DOMAIN tbl) \ {k} |-> tbl[x]]
EmptyTable == << >>

-----------------------------------------------------------------------------
(* Heap objects (object.rs) and their sizes *)

Dead == [live |-> FALSE]

StringObj(s) == [kind |-> "String", s |-> s]
FunctionObj(arity, code, constants, name, upvalues) ==
    [kind |-> "Function", arity |-> arity, code |-> code, constants |-> constants,
     name |-> name, upvalues |-> upvalues]
UpvalueObj(location) == [kind |-> "Upvalue", location |-> location, closed |-> NoneV]
ClosureObj(function, upvalues) ==
    [kind |-> "Closure", function |-> function, upvalues |-> upvalues]
ClassObj(name) == [kind |-> "Class", name |-> name, methods |-> EmptyTable]
InstanceObj(class) == [kind |-> "Instance", class |-> class, fields |-> EmptyTable]
BoundMethodObj(receiver, method) ==
    [kind |-> "BoundMethod", receiver |-> receiver, method |-> method]
ArrayObj(elems) == [kind |-> "Array", elems |-> elems]

\* GcTrace::size of each object kind on a 64-bit target, a Vec's capacity taken
\* as its length.
ObjectSize(o) ==
    CASE o.kind = "String" -> 24 + Len(o.s)
      [] o.kind = "Function" ->
            112 + 16 * Len(o.upvalues) + 24 * Len(o.code) + 24 * Len(o.constants)
      [] o.kind = "Upvalue" -> 24
      [] o.kind = "Closure" -> 32 + 8 * Len(o.upvalues)
      [] o.kind = "Class" -> 56
      [] o.kind = "Instance" -> 56
      [] o.kind = "BoundMethod" -> 24
      [] o.kind = "Array" -> 24 + 16 * Len(o.elems)

GcObjectHeader == 32       \* mem::size_of::<GcObject>()
NEXT_GC == 1048576         \* Gc::NEXT_GC = 1024 * 1024
GROW_FACTOR == 2           \* Gc::GROW_FACTOR

-----------------------------------------------------------------------------
(* Gc (gc.rs).  The operators take and return a record of the whole VM, so *)
(* that a handler is the composition of the calls it makes.                *)

InHeap(vm, h) == h >= 0 /\ h < Len(vm.objects)
Live(vm, h) == InHeap(vm, h) /\ At(vm.objects, h).live
\* Gc::deref succeeds: the slot is occupied and downcasts to the asked type.
IsA(vm, h, kind) == Live(vm, h) /\ At(vm.objects, h).object.kind = kind
Obj(vm, h) == At(vm.objects, h).object

Panic(vm, msg) == [vm EXCEPT !.status = "panic", !.message = msg]

\* A panic unwinds: what follows a call runs only if the call did not panic.
AndThen(r, F(_)) == IF r.status = "panic" THEN r ELSE F(r)

should_gc(vm) == IF vm.stress THEN TRUE ELSE vm.bytes_allocated > vm.next_gc

\* A faulty Gc::alloc, which leaves the index it reuses on the free list.
GcAllocKeepsFree(vm, object) ==
    LET size == ObjectSize(object) + GcObjectHeader
        entry == [live |-> TRUE, is_marked |-> FALSE, size |-> size, object |-> object]
        reuse == vm.free_slots # << >>
        index == IF reuse THEN Last(vm.free_slots) ELSE Len(vm.objects)
    IN [vm EXCEPT
          !.bytes_allocated = @ + size,
          !.objects = IF reuse THEN [@ EXCEPT ![index + 1] = entry] ELSE Append(@, entry),
          !.ret = index]

\* Gc::alloc: the handle is left in .ret
GcAlloc(vm, object) ==
    LET size == ObjectSize(object) + GcObjectHeader
        entry == [live |-> TRUE, is_marked |-> FALSE, size |-> size, object |-> object]
        reuse == vm.free_slots # << >>
        index == IF reuse THEN Last(vm.free_slots) ELSE Len(vm.objects)
    IN [vm EXCEPT
          !.bytes_allocated = @ + size,
          !.free_slots = IF reuse THEN Front(@) ELSE @,
          !.objects = IF reuse THEN [@ EXCEPT ![index + 1] = entry] ELSE Append(@, entry),
          !.ret = index]

\* Gc::intern
GcIntern(vm, s) ==
    IF s \in DOMAIN vm.strings
    THEN [vm EXCEPT !.ret = vm.strings[s]]
    ELSE LET a == GcAlloc(vm, StringObj(s))
         IN [a EXCEPT !.strings = [x \in (DOMAIN vm.strings) \cup {s} |->
                                      IF x = s THEN a.ret ELSE vm.strings[x]]]

\* Value::trace: the variants whose handle is passed to mark_object.
TracedValue(v) ==
    v.t \in {"Closure", "Function", "VString", "BoundMethod", "Class", "Instance"}

ValueRefs(vs) ==
    LET f == SelectSeq(vs, TracedValue) IN [i \in 1..Len(f) |-> f[i].v]

RECURSIVE TableRefsOf(_, _)
TableRefsOf(tbl, keys) ==
    IF keys = << >> THEN << >>
    ELSE <<keys[1]>> \o ValueRefs(<<tbl[keys[1]]>>) \o TableRefsOf(tbl, Tail(keys))

\* Gc::mark_table: each key, then its value
TableRefs(tbl) == TableRefsOf(tbl, SetToSeq(DOMAIN tbl))

\* GcTrace::trace of each object kind: the handles it passes to mark_object, in order.
ObjectRefs(o) ==
    CASE o.kind = "String" -> << >>
      [] o.kind = "Function" -> <<o.name>> \o ValueRefs(o.constants)
      [] o.kind = "Upvalue" -> IF o.closed.t = "None" THEN << >> ELSE ValueRefs(<<o.closed>>)
      [] o.kind = "Closure" -> <<o.function>> \o o.upvalues
      [] o.kind = "Class" -> <<o.name>> \o TableRefs(o.methods)
      [] o.kind = "Instance" -> <<o.class>> \o TableRefs(o.fields)
      [] o.kind = "BoundMethod" -> ValueRefs(<<o.receiver>>) \o <<o.method>>
      [] o.kind = "Array" -> ValueRefs(o.elems)

\* Gc::mark_object
mark_object(vm, h) ==
    IF vm.status = "panic" THEN vm
    ELSE IF ~InHeap(vm, h) THEN Panic(vm, "index out of bounds")
    ELSE IF ~At(vm.objects, h).live
         THEN Panic(vm, "Marking an already disposed value")
    ELSE IF At(vm.objects, h).is_marked THEN vm
    ELSE [vm EXCEPT !.objects[h + 1].is_marked = TRUE,
                    !.grey_stack = Append(@, h)]

RECURSIVE MarkAll(_, _)
MarkAll(vm, hs) ==
    IF hs = << >> THEN vm ELSE MarkAll(mark_object(vm, hs[1]), Tail(hs))

\* Gc::blacken_object: the slot is emptied while its object is traced.
blacken_object(vm, index) ==
    AndThen(MarkAll([vm EXCEPT !.objects[index + 1] = Dead],
                    ObjectRefs(At(vm.objects, index).object)),
            LAMBDA traced : [traced EXCEPT !.objects[index + 1] = At(vm.objects, index)])

\* Gc::trace_references
RECURSIVE trace_references(_)
trace_references(vm) ==
    IF vm.status = "panic" \/ vm.grey_stack = << >> THEN vm
    ELSE trace_references(
            blacken_object([vm EXCEPT !.grey_stack = Front(@)], Last(vm.grey_stack)))

\* A faulty remove_white_strings, which keeps every entry.
remove_white_strings_keeps(vm) == vm

\* Gc::remove_white_strings
remove_white_strings(vm) ==
    LET keep == {s \in DOMAIN vm.strings : At(vm.objects, vm.strings[s]).is_marked}
    IN [vm EXCEPT !.strings = [s \in keep |-> vm.strings[s]]]

\* A faulty sweep, which leaves the mark of the objects it keeps.
sweep_keeps_marks(vm) ==
    LET white(i) == vm.objects[i].live /\ ~vm.objects[i].is_marked
        freed == SelectSeq([i \in 1..Len(vm.objects) |-> i], white)
    IN [vm EXCEPT
          !.objects = [i \in 1..Len(vm.objects) |->
                          IF ~vm.objects[i].live \/ vm.objects[i].is_marked
                          THEN vm.objects[i]
                          ELSE Dead],
          !.bytes_allocated = @ - SumSeq([k \in 1..Len(freed) |-> vm.objects[freed[k]].size]),
          !.free_slots = @ \o [k \in 1..Len(freed) |-> freed[k] - 1]]

\* A faulty sweep, whose free leaves bytes_allocated as it is.
sweep_keeps_bytes(vm) ==
    LET white(i) == vm.objects[i].live /\ ~vm.objects[i].is_marked
        freed == SelectSeq([i \in 1..Len(vm.objects) |-> i], white)
    IN [vm EXCEPT
          !.objects = [i \in 1..Len(vm.objects) |->
                          IF ~vm.objects[i].live THEN vm.objects[i]
                          ELSE IF vm.objects[i].is_marked
                               THEN [vm.objects[i] EXCEPT !.is_marked = FALSE]
                               ELSE Dead],
          !.free_slots = @ \o [k \in 1..Len(freed) |-> freed[k] - 1]]

\* Gc::sweep with Gc::free
sweep(vm) ==
    LET white(i) == vm.objects[i].live /\ ~vm.objects[i].is_marked
        freed == SelectSeq([i \in 1..Len(vm.objects) |-> i], white)
    IN [vm EXCEPT
          !.objects = [i \in 1..Len(vm.objects) |->
                          IF ~vm.objects[i].live THEN vm.objects[i]
                          ELSE IF vm.objects[i].is_marked
                               THEN [vm.objects[i] EXCEPT !.is_marked = FALSE]
                               ELSE Dead],
          !.bytes_allocated = @ - SumSeq([k \in 1..Len(freed) |-> vm.objects[freed[k]].size]),
          !.free_slots = @ \o [k \in 1..Len(freed) |-> freed[k] - 1]]

\* Gc::collect_garbage
gc_collect_garbage(vm) ==
    AndThen(trace_references(vm),
            LAMBDA traced :
                AndThen(sweep(remove_white_strings(traced)),
                        LAMBDA swept :
                            [swept EXCEPT !.next_gc = swept.bytes_allocated * GROW_FACTOR,
                                          !.gc_cycles = @ + 1]))

-----------------------------------------------------------------------------
(* Vm: collection and allocation helpers (vm.rs) *)

\* Vm::mark_roots
mark_roots(vm) ==
    MarkAll(vm,
        ValueRefs(vm.stack)
        \o [i \in 1..Len(vm.frames) |-> vm.frames[i].closure]
        \o vm.open_upvalues
        \o TableRefs(vm.globals)
        \o <<vm.init_string>>)

\* Vm::collect_garbage
collect_garbage(vm) ==
    IF should_gc(vm) THEN gc_collect_garbage(mark_roots(vm)) ELSE vm

\* Vm::alloc
Alloc(vm, object) == AndThen(collect_garbage(vm), LAMBDA c : GcAlloc(c, object))

\* Vm::intern
Intern(vm, s) == AndThen(collect_garbage(vm), LAMBDA c : GcIntern(c, s))

-----------------------------------------------------------------------------
(* Text forms *)

DigitChars == <<"0", "1", "2", "3", "4", "5", "6", "7", "8", "9">>

RECURSIVE NatText(_)
NatText(n) == IF n < 10 THEN DigitChars[n + 1]
              ELSE NatText(n \div 10) \o DigitChars[(n % 10) + 1]

\* format!("{}", n) of an integer-valued f64 (also of a usize)
NumText(n) == IF n < 0 THEN "-" \o NatText(0 - n) ELSE NatText(n)

DerefFail(vm, h) ==
    Panic(vm, IF Live(vm, h) THEN "Reference not found" ELSE "Reference already freed")

FmtFail(h) == [ok |-> FALSE, text |-> "", bad |-> h]
FmtDone(t) == [ok |-> TRUE, text |-> t, bad |-> 0]

\* Value::format and the GcTrace::format of each object kind.  The result says
\* whether every Gc::deref on the way succeeded, and if not which handle failed.
RECURSIVE Format(_, _)
RECURSIVE FormatElems(_, _, _)
Format(vm, v) ==
    CASE v.t = "VString" ->
            IF IsA(vm, v.v, "String")
            THEN FmtDone("\"" \o Obj(vm, v.v).s \o "\"") ELSE FmtFail(v.v)
      [] v.t = "Function" ->
            IF ~IsA(vm, v.v, "Function") THEN FmtFail(v.v)
            ELSE LET n == Obj(vm, v.v).name
                 IN IF ~IsA(vm, n, "String") THEN FmtFail(n)
                    ELSE IF Obj(vm, n).s = "" THEN FmtDone("<script>")
                    ELSE FmtDone("<fn " \o Obj(vm, n).s \o ">")
      [] v.t = "Closure" ->
            IF ~IsA(vm, v.v, "Closure") THEN FmtFail(v.v)
            ELSE Format(vm, FunctionV(Obj(vm, v.v).function))
      [] v.t = "BoundMethod" ->
            IF ~IsA(vm, v.v, "BoundMethod") THEN FmtFail(v.v)
            ELSE Format(vm, ClosureV(Obj(vm, v.v).method))
      [] v.t = "Class" ->
            IF ~IsA(vm, v.v, "Class") THEN FmtFail(v.v)
            ELSE LET n == Obj(vm, v.v).name
                 IN IF ~IsA(vm, n, "String") THEN FmtFail(n) ELSE FmtDone(Obj(vm, n).s)
      [] v.t = "Instance" ->
            IF ~IsA(vm, v.v, "Instance") THEN FmtFail(v.v)
            ELSE LET c == Format(vm, ClassV(Obj(vm, v.v).class))
                 IN IF ~c.ok THEN c ELSE FmtDone(c.text \o " instance")
      [] v.t = "Array" ->
            IF ~IsA(vm, v.v, "Array") THEN FmtFail(v.v)
            ELSE FormatElems(vm, Obj(vm, v.v).elems, "[")
      [] v.t = "Bool" -> FmtDone(IF v.v = 1 THEN "true" ELSE "false")
      [] v.t = "Nil" -> FmtDone("nil")
      [] v.t = "Number" -> FmtDone(NumText(v.v))
      [] OTHER -> FmtDone("<native fn>")
FormatElems(vm, es, acc) ==
    IF es = << >> THEN FmtDone(acc \o "]")
    ELSE LET r == Format(vm, es[1])
         IN IF ~r.ok THEN r
            ELSE FormatElems(vm, Tail(es),
                             acc \o r.text \o (IF Len(es) = 1 THEN "" ELSE ", "))

-----------------------------------------------------------------------------
(* Vm: stack manipulation, errors, current pointers (vm.rs) *)

Exit(vm) == [vm EXCEPT !.status = "exit",
                       !.message = "Error: popping a value from empty stack."]

\* Vm::push (the capacity test never fires for a stack that fits in memory)
push(vm, value) == [vm EXCEPT !.stack = Append(@, value)]

\* Vm::peek; the caller has checked index < Len(vm.stack)
peek(vm, index) == vm.stack[Len(vm.stack) - index]

\* The stack with its n top values popped.
Popped(vm, n) == [vm EXCEPT !.stack = Take(@, Len(@) - n)]

\* Vm::runtime_error: the stack is cleared, the frames are left as they are.
runtime_error(vm, msg) ==
    [vm EXCEPT !.stack = << >>, !.status = "runtime_error", !.message = msg]

current_frame(vm) == Last(vm.frames)
current_closure(vm) == Obj(vm, current_frame(vm).closure)
current_function(vm) == Obj(vm, current_closure(vm).function)

CallFrame(closure, slot) == [closure |-> closure, ip |-> 0, slot |-> slot]

InvalidIdentifier == "Error: Invalid identifier found for usage on stack."

-----------------------------------------------------------------------------
(* Native functions (vm.rs) *)

NativeNames == <<"clock", "panic", "min", "max", "isBool", "isClass", "isClosure",
                 "isFunction", "isInstance", "isNil", "isNumber", "isString",
                 "instanceof">>

NativeOk(value) == [ok |-> TRUE, value |-> value, err |-> "", panics |-> FALSE]
NativeErr(err) == [ok |-> FALSE, value |-> Nil, err |-> err, panics |-> FALSE]
NativePanic(msg) == [ok |-> FALSE, value |-> Nil, err |-> msg, panics |-> TRUE]

RECURSIVE FoldNumbers(_, _, _)
FoldNumbers(args, acc, takeMax) ==
    IF args = << >> THEN acc
    ELSE FoldNumbers(Tail(args),
                     IF takeMax THEN (IF args[1].v > acc THEN args[1].v ELSE acc)
                     ELSE (IF args[1].v < acc THEN args[1].v ELSE acc),
                     takeMax)

\* is_bool, is_class, ... : one argument, true iff it is of the variant
TypePredicate(name, variant, args) ==
    IF Len(args) = 1 THEN NativeOk(Bool(args[1].t = variant))
    ELSE NativeErr(name \o " needs one argument")

\* The native function registered under NativeNames[id], applied to args.
NativeCall(vm, id, args) ==
    LET name == NativeNames[id]
    IN CASE name = "clock" -> NativeOk(Number(0))
         [] name = "panic" -> NativePanic("panic")
         [] name \in {"min", "max"} ->
              IF Len(args) < 2 THEN NativeErr(name \o " expects more than 1 argument")
              ELSE IF \E k \in 1..Len(args) : args[k].t # "Number"
                   THEN NativeErr(name \o " needs numeric argument")
              ELSE NativeOk(Number(FoldNumbers(args, args[1].v, name = "max")))
         [] name = "isBool" -> TypePredicate(name, "Bool", args)
         [] name = "isClass" -> TypePredicate(name, "Class", args)
         [] name = "isClosure" -> TypePredicate(name, "Closure", args)
         [] name = "isFunction" -> TypePredicate(name, "Function", args)
         [] name = "isInstance" -> TypePredicate(name, "Instance", args)
         [] name = "isNil" -> TypePredicate(name, "Nil", args)
         [] name = "isNumber" -> TypePredicate(name, "Number", args)
         [] name = "isString" -> TypePredicate(name, "VString", args)
         [] OTHER ->
              IF Len(args) # 2 THEN NativeErr("instanceof needs two arguments")
              ELSE IF args[1].t = "Instance" /\ args[2].t = "Class"
                   THEN IF IsA(vm, args[1].v, "Instance")
                        THEN NativeOk(Bool(Obj(vm, args[1].v).class = args[2].v))
                        ELSE NativePanic("Reference already freed")
              ELSE NativeErr("instanceof needs an instance and a class")

-----------------------------------------------------------------------------
(* Vm: helpers for calling a function (vm.rs) *)

ArityMessage(arity, arg_count) ==
    "Expected " \o NumText(arity) \o " arguments but got " \o NumText(arg_count) \o "."

\* A faulty call, which pushes the frame whatever the number of arguments.
call_any_arity(vm, callee, arg_count) ==
    IF ~IsA(vm, callee, "Closure") THEN DerefFail(vm, callee)
    ELSE [vm EXCEPT !.frames = Append(@, CallFrame(callee, Len(vm.stack) - arg_count - 1))]

\* Vm::call
call(vm, callee, arg_count) ==
    IF ~IsA(vm, callee, "Closure") THEN DerefFail(vm, callee)
    ELSE IF ~IsA(vm, Obj(vm, callee).function, "Function")
         THEN DerefFail(vm, Obj(vm, callee).function)
    ELSE LET function == Obj(vm, Obj(vm, callee).function)
         IN IF function.arity # arg_count
            THEN runtime_error(vm, ArityMessage(function.arity, arg_count))
            ELSE [vm EXCEPT !.frames =
                     Append(@, CallFrame(callee, Len(vm.stack) - arg_count - 1))]

\* A faulty class arm, which lets a class with no init take arguments.
construct_any_args(placed, class, arg_count) ==
    IF ~IsA(placed, class, "Class") THEN DerefFail(placed, class)
    ELSE LET methods == Obj(placed, class).methods
         IN IF placed.init_string \in DOMAIN methods
            THEN IF methods[placed.init_string].t = "Closure"
                 THEN call(placed, methods[placed.init_string].v, arg_count)
                 ELSE runtime_error(placed, "Initializer is not closure")
            ELSE placed

\* Vm::call_value, the class arm once the instance is in the callee's slot
construct(placed, class, arg_count) ==
    IF ~IsA(placed, class, "Class") THEN DerefFail(placed, class)
    ELSE LET methods == Obj(placed, class).methods
         IN IF placed.init_string \in DOMAIN methods
            THEN IF methods[placed.init_string].t = "Closure"
                 THEN call(placed, methods[placed.init_string].v, arg_count)
                 ELSE runtime_error(placed, "Initializer is not closure")
            ELSE IF arg_count # 0
                 THEN runtime_error(placed, ArityMessage(0, arg_count))
                 ELSE placed

\* Vm::call_value; the caller has read callee with peek(arg_count)
call_value(vm, callee, arg_count) ==
    CASE callee.t = "NativeFn" ->
            LET left == Len(vm.stack) - arg_count
                r == NativeCall(vm, callee.v, SubSeq(vm.stack, left + 1, Len(vm.stack)))
            IN IF r.panics THEN Panic(vm, r.err)
               ELSE IF ~r.ok THEN runtime_error(vm, r.err)
               ELSE push([vm EXCEPT !.stack = Take(@, left - 1)], r.value)
      [] callee.t = "Closure" -> call(vm, callee.v, arg_count)
      [] callee.t = "Class" ->
            AndThen(Alloc(vm, InstanceObj(callee.v)),
                    LAMBDA a : construct(
                        [a EXCEPT !.stack[Len(vm.stack) - arg_count] = InstanceV(a.ret)],
                        callee.v, arg_count))
      [] callee.t = "BoundMethod" ->
            IF ~IsA(vm, callee.v, "BoundMethod") THEN DerefFail(vm, callee.v)
            ELSE LET bound_method == Obj(vm, callee.v)
                     index == Len(vm.stack) - 1 - arg_count
                 IN call([vm EXCEPT !.stack[index + 1] = bound_method.receiver],
                         bound_method.method, arg_count)
      [] OTHER -> runtime_error(vm, "Can only call functions and classes.")

\* A faulty capture_upvalue, which never looks for an open cell of the slot.
capture_upvalue_fresh(vm, index) ==
    AndThen(Alloc(vm, UpvalueObj(index)),
            LAMBDA a : [a EXCEPT !.open_upvalues = Append(@, a.ret)])

\* Vm::capture_upvalue: the cell's handle is left in .ret
capture_upvalue(vm, index) ==
    LET dead == {k \in 1..Len(vm.open_upvalues) : ~IsA(vm, vm.open_upvalues[k], "Upvalue")}
        hits == {k \in 1..Len(vm.open_upvalues) :
                    /\ \A j \in 1..k : j \notin dead
                    /\ Obj(vm, vm.open_upvalues[k]).location = index}
    IN IF hits # {}
       THEN [vm EXCEPT !.ret = vm.open_upvalues[CHOOSE k \in hits : \A j \in hits : k <= j]]
       ELSE IF dead # {}
            THEN DerefFail(vm, vm.open_upvalues[CHOOSE k \in dead : \A j \in dead : k <= j])
       ELSE AndThen(Alloc(vm, UpvalueObj(index)),
                    LAMBDA a : [a EXCEPT !.open_upvalues = Append(@, a.ret)])

\* A faulty close_upvalue, which stores the values and leaves the cells in the
\* list.
close_upvalue_keeps(vm, last) ==
    LET closing == {vm.open_upvalues[k] : k \in 1..Len(vm.open_upvalues)}
    IN [vm EXCEPT !.objects =
          [j \in 1..Len(@) |->
              IF (j - 1) \in closing /\ IsA(vm, j - 1, "Upvalue")
                 /\ Obj(vm, j - 1).location >= last
                 /\ Obj(vm, j - 1).location < Len(vm.stack)
              THEN [@[j] EXCEPT !.object.closed = At(vm.stack, Obj(vm, j - 1).location)]
              ELSE @[j]]]

\* Vm::close_upvalue, from position i of the list on
RECURSIVE close_upvalue_from(_, _, _)
close_upvalue_from(vm, last, i) ==
    IF vm.status = "panic" \/ i = Len(vm.open_upvalues) THEN vm
    ELSE LET h == At(vm.open_upvalues, i)
         IN IF ~IsA(vm, h, "Upvalue") THEN DerefFail(vm, h)
            ELSE LET location == Obj(vm, h).location
                 IN IF location >= last
                    THEN IF location >= Len(vm.stack)
                         THEN Panic(vm, "index out of bounds")
                         ELSE close_upvalue_from(
                                [vm EXCEPT
                                   !.open_upvalues =
                                       SubSeq(@, 1, i) \o SubSeq(@, i + 2, Len(@)),
                                   !.objects[h + 1].object.closed = At(vm.stack, location)],
                                last, i)
                    ELSE close_upvalue_from(vm, last, i + 1)

close_upvalue(vm, last) == close_upvalue_from(vm, last, 0)

\* Vm::define_method
define_method(vm, name) ==
    IF Len(vm.stack) < 2 THEN Panic(vm, "index out of bounds")
    ELSE LET method == peek(vm, 0)
         IN IF peek(vm, 1).t = "Class"
            THEN LET class == peek(vm, 1).v
                 IN IF ~IsA(vm, class, "Class") THEN DerefFail(vm, class)
                    ELSE Popped([vm EXCEPT !.objects[class + 1].object.methods =
                                    TableInsert(@, name, method)], 1)
            ELSE runtime_error(vm, "Cannot define a method on non class.")

UndefinedProperty(vm, name) == "Undefined property '" \o Obj(vm, name).s \o "'."

\* Vm::bind_method
bind_method(vm, class, name) ==
    IF ~IsA(vm, class, "Class") THEN DerefFail(vm, class)
    ELSE LET methods == Obj(vm, class).methods
         IN IF name \in DOMAIN methods
            THEN IF vm.stack = << >> THEN Panic(vm, "index out of bounds")
                 ELSE IF methods[name].t # "Closure" THEN runtime_error(vm, "No method found")
                 ELSE AndThen(Alloc(vm, BoundMethodObj(peek(vm, 0), methods[name].v)),
                              LAMBDA a : push(Popped(a, 1), BoundMethodV(a.ret)))
            ELSE IF ~IsA(vm, name, "String") THEN DerefFail(vm, name)
            ELSE runtime_error(vm, UndefinedProperty(vm, name))

\* Vm::invoke_from_class
invoke_from_class(vm, class, name, count) ==
    IF ~IsA(vm, class, "Class") THEN DerefFail(vm, class)
    ELSE LET methods == Obj(vm, class).methods
         IN IF name \in DOMAIN methods
            THEN IF methods[name].t = "Closure" THEN call(vm, methods[name].v, count)
                 ELSE runtime_error(vm, "Got method that is not closure!")
            ELSE IF ~IsA(vm, name, "String") THEN DerefFail(vm, name)
            ELSE IF Obj(vm, name).s = "toString"
                 THEN IF count # 0 THEN runtime_error(vm, "toString requires no arguments")
                      ELSE IF vm.stack = << >> THEN Exit(vm)
                      ELSE push(Popped(vm, 1), VString(Obj(vm, class).name))
            ELSE runtime_error(vm, UndefinedProperty(vm, name))

\* `c as u32` of the one character of a string, for the characters the
\* programs use (the others stand as '?').
CharCode(s) ==
    CASE s = "a" -> 97 [] s = "b" -> 98 [] s = "x" -> 120 [] s = "0" -> 48
      [] OTHER -> 63

\* f64::powf on whole numbers; with a negative exponent the result is whole
\* only for the bases 1 and -1, every other one stands as 0.
RECURSIVE powf(_, _)
powf(n, e) ==
    IF e = 0 THEN 1
    ELSE IF e > 0 THEN n * powf(n, e - 1)
    ELSE IF n = 1 THEN 1
    ELSE IF n = 0 - 1 THEN (IF e % 2 = 0 THEN 1 ELSE 0 - 1)
    ELSE 0

\* Vm::invoke.  Of the built-in methods on strings, arrays and numbers the ones
\* modelled are length, ord, push, pop, abs, pow and square; any other name on
\* such a receiver takes the branch of the unknown method.
invoke(vm, name, arg_count) ==
    IF Len(vm.stack) < arg_count + 1 THEN Panic(vm, "index out of bounds")
    ELSE IF ~IsA(vm, name, "String") THEN DerefFail(vm, name)
    ELSE
    LET receiver == peek(vm, arg_count)
        method_name == Obj(vm, name).s
    IN
    IF method_name = "copy" THEN
        IF arg_count # 0 THEN runtime_error(vm, "Copy requires only one argument.")
        ELSE IF receiver.t \in {"Array", "Instance"} THEN
            IF ~IsA(vm, receiver.v, receiver.t) THEN DerefFail(vm, receiver.v)
            ELSE AndThen(Alloc(vm, Obj(vm, receiver.v)),
                         LAMBDA a : push(Popped(a, 1), [t |-> receiver.t, v |-> a.ret]))
        ELSE runtime_error(vm, "Function copy is not defined for " \o type_of(receiver))
    ELSE IF receiver.t = "VString" THEN
        IF method_name = "length" THEN
            IF arg_count # 0 THEN runtime_error(vm, "length requires no arguments.")
            ELSE IF ~IsA(vm, receiver.v, "String") THEN DerefFail(Popped(vm, 1), receiver.v)
            ELSE push(Popped(vm, 1), Number(Len(Obj(vm, receiver.v).s)))
        ELSE IF method_name = "ord" THEN
            IF arg_count # 0 THEN runtime_error(vm, "ord requires no arguments.")
            ELSE IF ~IsA(vm, receiver.v, "String") THEN DerefFail(vm, receiver.v)
            ELSE IF Len(Obj(vm, receiver.v).s) = 1
                 THEN push(vm, Number(CharCode(Obj(vm, receiver.v).s)))
                 ELSE runtime_error(vm, "ord can be called on one-char strings only.")
        ELSE runtime_error(vm, "String doesn't have " \o method_name \o " as method.")
    ELSE IF receiver.t = "Instance" THEN
        IF ~IsA(vm, receiver.v, "Instance") THEN DerefFail(vm, receiver.v)
        ELSE LET instance == Obj(vm, receiver.v)
             IN IF name \in DOMAIN instance.fields
                THEN LET pos == Len(vm.stack) - 1 - arg_count
                         value == instance.fields[name]
                     IN call_value([vm EXCEPT !.stack[pos + 1] = value], value, arg_count)
                ELSE invoke_from_class(vm, instance.class, name, arg_count)
    ELSE IF receiver.t = "Array" THEN
        IF method_name = "length" THEN
            IF arg_count # 0 THEN runtime_error(vm, "length requires no arguments.")
            ELSE IF ~IsA(vm, receiver.v, "Array") THEN DerefFail(Popped(vm, 1), receiver.v)
            ELSE push(Popped(vm, 1), Number(Len(Obj(vm, receiver.v).elems)))
        ELSE IF method_name = "pop" THEN
            IF arg_count # 0 THEN runtime_error(vm, "pop requires no arguments.")
            ELSE IF ~IsA(vm, receiver.v, "Array") THEN DerefFail(vm, receiver.v)
            ELSE LET elems == Obj(vm, receiver.v).elems
                 IN IF elems = << >>
                    THEN runtime_error(vm, "No element in array when popping from it.")
                    ELSE push(Popped([vm EXCEPT !.objects[receiver.v + 1].object.elems =
                                         Front(elems)], 1),
                              Last(elems))
        ELSE IF method_name = "push" THEN
            IF arg_count = 0 THEN runtime_error(vm, "No arguments given to function push.")
            ELSE LET temp == SubSeq(vm.stack, Len(vm.stack) - arg_count + 1, Len(vm.stack))
                     p == Popped(vm, arg_count)
                 IN IF ~IsA(p, receiver.v, "Array") THEN DerefFail(p, receiver.v)
                    ELSE push(Popped([p EXCEPT !.objects[receiver.v + 1].object.elems =
                                         @ \o temp], 1),
                              Nil)
        ELSE runtime_error(vm, "Array doesn't have " \o method_name \o " as method.")
    ELSE IF receiver.t = "Number" THEN
        IF method_name = "abs" THEN
            IF arg_count = 0
            THEN push(Popped(vm, 1), Number(IF receiver.v < 0 THEN 0 - receiver.v
                                            ELSE receiver.v))
            ELSE runtime_error(vm, "abs expects only one argument.")
        ELSE IF method_name = "pow" THEN
            IF arg_count = 1
            THEN IF peek(vm, 0).t = "Number"
                 THEN push(Popped(vm, 1), Number(powf(receiver.v, peek(vm, 0).v)))
                 ELSE runtime_error(Popped(vm, 1), "sqrt needs numeric argument")
            ELSE runtime_error(vm, "sqrt expects only one argument")
        ELSE IF method_name = "square" THEN
            IF arg_count = 0
            THEN push(Popped(vm, 1), Number(receiver.v * receiver.v))
            ELSE runtime_error(vm, "square expects only one argument")
        ELSE runtime_error(vm, "Float doesn't have " \o method_name \o " as method.")
    ELSE IF method_name = "toString" THEN
        IF arg_count # 0 THEN runtime_error(vm, "toString requires no arguments")
        ELSE LET f == Format(vm, receiver)
             IN IF ~f.ok THEN DerefFail(vm, f.bad)
                ELSE AndThen(Alloc(vm, StringObj(f.text)),
                             LAMBDA a : push(Popped(a, 1), VString(a.ret)))
    ELSE runtime_error(vm, "Only instances have methods.")

-----------------------------------------------------------------------------
(* Vm::run: one operator per arm of the dispatch loop.  vm is the VM after *)
(* the loop has advanced the ip of the current frame, i the instruction.    *)

Const(vm, k) == At(current_function(vm).constants, k)

UndefinedVariable(vm, name) == "Undefined variable '" \o Obj(vm, name).s \o "'."

PushInterned(vm, text) ==
    AndThen(Intern(vm, text), LAMBDA s : push(s, VString(s.ret)))

\* OpCode::Add
DoAdd(vm, i) ==
    IF Len(vm.stack) < 2 THEN Exit(vm)
    ELSE LET b == peek(vm, 0)
             a == peek(vm, 1)
             p == Popped(vm, 2)
         IN CASE a.t = "Number" /\ b.t = "Number" -> push(p, Number(a.v + b.v))
              [] a.t = "VString" /\ b.t = "VString" ->
                    IF ~IsA(p, a.v, "String") THEN DerefFail(p, a.v)
                    ELSE IF ~IsA(p, b.v, "String") THEN DerefFail(p, b.v)
                    ELSE PushInterned(p, Obj(p, a.v).s \o Obj(p, b.v).s)
              [] a.t = "Number" /\ b.t = "VString" ->
                    IF ~IsA(p, b.v, "String") THEN DerefFail(p, b.v)
                    ELSE PushInterned(p, NumText(a.v) \o Obj(p, b.v).s)
              [] a.t = "VString" /\ b.t = "Number" ->
                    IF ~IsA(p, a.v, "String") THEN DerefFail(p, a.v)
                    ELSE PushInterned(p, Obj(p, a.v).s \o NumText(b.v))
              [] a.t = "Array" /\ b.t = "Array" ->
                    IF ~IsA(p, a.v, "Array") THEN DerefFail(p, a.v)
                    ELSE IF ~IsA(p, b.v, "Array") THEN DerefFail(p, b.v)
                    ELSE AndThen(Alloc(p, ArrayObj(Obj(p, a.v).elems \o Obj(p, b.v).elems)),
                                 LAMBDA c : push(c, ArrayV(c.ret)))
              [] OTHER ->
                    runtime_error(p, "Arguments must be both numbers or at least one string.")

\* OpCode::BuildList: the array is allocated by Gc::alloc, with no collection
DoBuildList(vm, i) ==
    IF Len(vm.stack) < i.a THEN Exit(vm)
    ELSE LET vec == SubSeq(vm.stack, Len(vm.stack) - i.a + 1, Len(vm.stack))
             a == GcAlloc(Popped(vm, i.a), ArrayObj(vec))
         IN push(a, ArrayV(a.ret))

\* OpCode::Call
DoCall(vm, i) ==
    IF Len(vm.stack) < i.a + 1 THEN Panic(vm, "index out of bounds")
    ELSE call_value(vm, peek(vm, i.a), i.a)

\* OpCode::Class
DoClass(vm, i) ==
    IF Const(vm, i.a).t = "VString"
    THEN AndThen(Alloc(vm, ClassObj(Const(vm, i.a).v)),
                 LAMBDA a : push(a, ClassV(a.ret)))
    ELSE runtime_error(vm, InvalidIdentifier)

\* OpCode::CloseUpvalue
DoCloseUpvalue(vm, i) ==
    IF vm.stack = << >> THEN Panic(vm, "attempt to subtract with overflow")
    ELSE AndThen(close_upvalue(vm, Len(vm.stack) - 1), LAMBDA c : Popped(c, 1))

\* The loop of OpCode::Closure over the function's upvalue descriptors; the
\* cells collected so far are in acc and the result is left in .ret
RECURSIVE CaptureAll(_, _, _)
CaptureAll(vm, descs, acc) ==
    IF vm.status = "panic" THEN vm
    ELSE IF descs = << >> THEN [vm EXCEPT !.ret = acc]
    ELSE IF descs[1].is_local
         THEN AndThen(capture_upvalue(vm, current_frame(vm).slot + descs[1].index),
                      LAMBDA c : CaptureAll(c, Tail(descs), Append(acc, c.ret)))
         ELSE IF descs[1].index >= Len(current_closure(vm).upvalues)
              THEN Panic(vm, "index out of bounds")
              ELSE CaptureAll(vm, Tail(descs),
                              Append(acc, At(current_closure(vm).upvalues, descs[1].index)))

\* OpCode::Closure
DoClosure(vm, i) ==
    IF Const(vm, i.a).t = "Function"
    THEN LET function == Const(vm, i.a).v
         IN IF ~IsA(vm, function, "Function") THEN DerefFail(vm, function)
            ELSE AndThen(CaptureAll(vm, Obj(vm, function).upvalues, << >>),
                         LAMBDA caps :
                             AndThen(Alloc(caps, ClosureObj(function, caps.ret)),
                                     LAMBDA a : push(a, ClosureV(a.ret))))
    ELSE runtime_error(vm, "Error: no function found.")

\* OpCode::Constant
DoConstant(vm, i) == push(vm, Const(vm, i.a))

\* OpCode::DefineGlobal
DoDefineGlobal(vm, i) ==
    IF Const(vm, i.a).t = "VString"
    THEN IF vm.stack = << >> THEN Panic(vm, "index out of bounds")
         ELSE Popped([vm EXCEPT !.globals = TableInsert(@, Const(vm, i.a).v, peek(vm, 0))], 1)
    ELSE runtime_error(vm, "Error: Invalid identifier found for definition on stack.")

\* OpCode::Equal, through Vm::bin_bool_op
DoEqual(vm, i) ==
    IF Len(vm.stack) < 2 THEN Exit(vm)
    ELSE push(Popped(vm, 2), Bool(ValueEq(peek(vm, 1), peek(vm, 0))))

\* Vm::pop_number followed by the rest of OpCode::GetIndexArray.  A negative
\* index saturates to 0 in the cast to usize.
DoGetIndexArray(vm, i) ==
    IF vm.stack = << >> THEN Exit(vm)
    ELSE IF peek(vm, 0).t # "Number"
         THEN runtime_error(Popped(vm, 1),
                            "Error: no number found on stack for indexing an array..")
    ELSE IF Len(vm.stack) < 2 THEN Exit(vm)
    ELSE LET index == IF peek(vm, 0).v < 0 THEN 0 ELSE peek(vm, 0).v
             array == peek(vm, 1)
             p == Popped(vm, 2)
         IN IF array.t = "Array"
            THEN IF ~IsA(p, array.v, "Array") THEN DerefFail(p, array.v)
                 ELSE IF index >= Len(Obj(p, array.v).elems)
                      THEN Panic(p, "index out of bounds")
                      ELSE push(p, At(Obj(p, array.v).elems, index))
            ELSE runtime_error(p, "No array found on stack when indexing an array.")

\* OpCode::GetGlobal
DoGetGlobal(vm, i) ==
    IF Const(vm, i.a).t = "VString"
    THEN LET string_ref == Const(vm, i.a).v
         IN IF string_ref \in DOMAIN vm.globals
            THEN push(vm, vm.globals[string_ref])
            ELSE runtime_error(vm, UndefinedVariable(vm, string_ref))
    ELSE runtime_error(vm, InvalidIdentifier)

\* OpCode::GetLocal
\* OpCode::SetLocal
DoSetLocal(vm, i) ==
    LET index == i.a + current_frame(vm).slot
    IN IF vm.stack = << >> \/ index >= Len(vm.stack)
       THEN Panic(vm, "index out of bounds")
       ELSE [vm EXCEPT !.stack[index + 1] = peek(vm, 0)]

DoGetLocal(vm, i) ==
    LET index == i.a + current_frame(vm).slot
    IN IF index >= Len(vm.stack) THEN Panic(vm, "index out of bounds")
       ELSE push(vm, At(vm.stack, index))

\* A faulty GET_PROPERTY, which looks for a method of the class before a field.
DoGetProperty_method_first(vm, i) ==
    IF vm.stack = << >> THEN Panic(vm, "index out of bounds")
    ELSE IF peek(vm, 0).t = "Instance"
    THEN LET instance == peek(vm, 0).v
         IN IF ~IsA(vm, instance, "Instance") THEN DerefFail(vm, instance)
            ELSE IF Const(vm, i.a).t = "VString"
                 THEN LET name == Const(vm, i.a).v
                      IN IF /\ IsA(vm, Obj(vm, instance).class, "Class")
                            /\ name \in DOMAIN Obj(vm, Obj(vm, instance).class).methods
                         THEN bind_method(vm, Obj(vm, instance).class, name)
                         ELSE IF name \in DOMAIN Obj(vm, instance).fields
                         THEN push(Popped(vm, 1), Obj(vm, instance).fields[name])
                         ELSE bind_method(vm, Obj(vm, instance).class, name)
                 ELSE runtime_error(vm, InvalidIdentifier)
    ELSE runtime_error(vm, "Only instances have properties.")

\* OpCode::GetProperty
DoGetProperty(vm, i) ==
    IF vm.stack = << >> THEN Panic(vm, "index out of bounds")
    ELSE IF peek(vm, 0).t = "Instance"
    THEN LET instance == peek(vm, 0).v
         IN IF ~IsA(vm, instance, "Instance") THEN DerefFail(vm, instance)
            ELSE IF Const(vm, i.a).t = "VString"
                 THEN LET name == Const(vm, i.a).v
                      IN IF name \in DOMAIN Obj(vm, instance).fields
                         THEN push(Popped(vm, 1), Obj(vm, instance).fields[name])
                         ELSE bind_method(vm, Obj(vm, instance).class, name)
                 ELSE runtime_error(vm, InvalidIdentifier)
    ELSE runtime_error(vm, "Only instances have properties.")

\* The value an upvalue cell stands for: its closed value, or the stack slot
UpvalueRead(vm, cell) ==
    IF Obj(vm, cell).closed.t # "None" THEN Obj(vm, cell).closed
    ELSE At(vm.stack, Obj(vm, cell).location)

UpvalueReadable(vm, cell) ==
    Obj(vm, cell).closed.t # "None" \/ Obj(vm, cell).location < Len(vm.stack)

\* OpCode::GetUpvalue
DoGetUpvalue(vm, i) ==
    IF i.a >= Len(current_closure(vm).upvalues) THEN Panic(vm, "index out of bounds")
    ELSE LET upvalue == At(current_closure(vm).upvalues, i.a)
         IN IF ~IsA(vm, upvalue, "Upvalue") THEN DerefFail(vm, upvalue)
            ELSE IF ~UpvalueReadable(vm, upvalue) THEN Panic(vm, "index out of bounds")
            ELSE push(vm, UpvalueRead(vm, upvalue))

\* A faulty OpCode::Inherit, which leaves the subclass's table as it is.
DoInherit_no_copy(vm, i) ==
    IF Len(vm.stack) < 2 THEN Panic(vm, "index out of bounds")
    ELSE IF peek(vm, 0).t = "Class" /\ peek(vm, 1).t = "Class" THEN Popped(vm, 1)
    ELSE runtime_error(vm, "Superclass must be a class.")

\* A faulty INHERIT, which removes the superclass from under the new class.
DoInherit_pops_superclass(vm, i) ==
    IF Len(vm.stack) < 2 THEN Panic(vm, "index out of bounds")
    ELSE IF peek(vm, 0).t = "Class" /\ peek(vm, 1).t = "Class"
    THEN LET class == peek(vm, 0).v
             superclass == peek(vm, 1).v
         IN IF ~IsA(vm, superclass, "Class") THEN DerefFail(vm, superclass)
            ELSE IF ~IsA(vm, class, "Class") THEN DerefFail(vm, class)
            ELSE push(Popped([vm EXCEPT !.objects[class + 1].object.methods =
                                 Obj(vm, superclass).methods], 2), peek(vm, 0))
    ELSE runtime_error(vm, "Superclass must be a class.")

\* OpCode::Inherit
DoInherit(vm, i) ==
    IF Len(vm.stack) < 2 THEN Panic(vm, "index out of bounds")
    ELSE IF peek(vm, 0).t = "Class" /\ peek(vm, 1).t = "Class"
    THEN LET class == peek(vm, 0).v
             superclass == peek(vm, 1).v
         IN IF ~IsA(vm, superclass, "Class") THEN DerefFail(vm, superclass)
            ELSE IF ~IsA(vm, class, "Class") THEN DerefFail(vm, class)
            ELSE Popped([vm EXCEPT !.objects[class + 1].object.methods =
                            Obj(vm, superclass).methods], 1)
    ELSE runtime_error(vm, "Superclass must be a class.")

\* OpCode::Invoke
DoInvoke(vm, i) ==
    IF Const(vm, i.a).t = "VString" THEN invoke(vm, Const(vm, i.a).v, i.b)
    ELSE runtime_error(vm, InvalidIdentifier)

\* A faulty is_false, for which the number 0 is false too.
is_false_zero(value) ==
    value.t = "Nil" \/ (value.t \in {"Bool", "Number"} /\ value.v = 0)

\* Value::is_false
is_false(value) == value.t = "Nil" \/ (value.t = "Bool" /\ value.v = 0)

\* OpCode::False
DoFalse(vm, i) == push(vm, Bool(FALSE))

\* OpCode::Jump
DoJump(vm, i) == [vm EXCEPT !.frames[Len(vm.frames)].ip = @ + i.a]

\* OpCode::JumpIfFalse
DoJumpIfFalse(vm, i) ==
    IF vm.stack = << >> THEN Panic(vm, "index out of bounds")
    ELSE IF is_false(peek(vm, 0))
         THEN [vm EXCEPT !.frames[Len(vm.frames)].ip = @ + i.a]
         ELSE vm

\* OpCode::Loop; the subtraction is checked
DoLoop(vm, i) ==
    IF current_frame(vm).ip < i.a + 1 THEN Panic(vm, "attempt to subtract with overflow")
    ELSE [vm EXCEPT !.frames[Len(vm.frames)].ip = @ - (i.a + 1)]

\* OpCode::Method
DoMethod(vm, i) ==
    IF Const(vm, i.a).t = "VString" THEN define_method(vm, Const(vm, i.a).v)
    ELSE runtime_error(vm, InvalidIdentifier)

\* OpCode::Nil
DoNil(vm, i) == push(vm, Nil)

\* OpCode::True
DoTrue(vm, i) == push(vm, Bool(TRUE))

\* OpCode::Pop
DoPop(vm, i) == IF vm.stack = << >> THEN Exit(vm) ELSE Popped(vm, 1)

\* OpCode::Print (the REPL prefix is not part of the text kept)
DoPrint(vm, i) ==
    IF vm.stack = << >> THEN Exit(vm)
    ELSE LET f == Format(vm, peek(vm, 0))
         IN IF ~f.ok THEN DerefFail(Popped(vm, 1), f.bad)
            ELSE [Popped(vm, 1) EXCEPT !.output = Append(@, f.text)]

\* What OpCode::Return and OpCode::ReturnNil do once the frame is popped and
\* the result taken.
FinishReturn(vm, frame, result) ==
    AndThen(close_upvalue(vm, frame.slot),
            LAMBDA c :
                IF c.frames = << >> THEN [c EXCEPT !.status = "ok"]
                ELSE push([c EXCEPT !.stack = Take(@, IF frame.slot < Len(@) THEN frame.slot
                                                        ELSE Len(@))],
                          result))

\* OpCode::Rem, with Vm::pop_number for each operand.  The numbers of the model
\* are integers, so both have a fractional part of 0; the cast to usize takes a
\* negative number to 0.
\* OpCode::Negate
DoNegate(vm, i) ==
    IF vm.stack = << >> THEN Exit(vm)
    ELSE IF peek(vm, 0).t # "Number"
    THEN runtime_error(Popped(vm, 1), "Error: no number found on stack to negate.")
    ELSE push(Popped(vm, 1), Number(0 - peek(vm, 0).v))

\* OpCode::SetIndexArray: the index is cast to usize, a negative one becomes 0,
\* and the vector is indexed unchecked.
DoSetIndexArray(vm, i) ==
    IF vm.stack = << >> THEN Exit(vm)
    ELSE IF Len(vm.stack) < 2 THEN Exit(Popped(vm, 1))
    ELSE IF peek(vm, 1).t # "Number"
    THEN runtime_error(Popped(vm, 2),
                       "Error: no number found on stack for indexing an array.")
    ELSE IF Len(vm.stack) < 3 THEN Exit(Popped(vm, 2))
    ELSE LET value == peek(vm, 0)
             index == IF peek(vm, 1).v < 0 THEN 0 ELSE peek(vm, 1).v
             array == peek(vm, 2)
             p == Popped(vm, 3)
         IN IF array.t = "Array"
            THEN IF ~IsA(p, array.v, "Array") THEN DerefFail(p, array.v)
                 ELSE IF index >= Len(Obj(p, array.v).elems)
                      THEN Panic(p, "index out of bounds")
                      ELSE push([p EXCEPT !.objects[array.v + 1].object.elems[index + 1] =
                                     value],
                                array)
            ELSE runtime_error(p, "No array found on stack when indexing.")

DoRem(vm, i) ==
    IF vm.stack = << >> THEN Exit(vm)
    ELSE IF peek(vm, 0).t # "Number"
    THEN runtime_error(Popped(vm, 1), "Error: no number found on stack as divisor in rem.")
    ELSE IF Len(vm.stack) < 2 THEN Exit(vm)
    ELSE IF peek(vm, 1).t # "Number"
    THEN runtime_error(Popped(vm, 2), "Error: no number found on stack as dividend in rem.")
    ELSE LET a == IF peek(vm, 1).v < 0 THEN 0 ELSE peek(vm, 1).v
             b == IF peek(vm, 0).v < 0 THEN 0 ELSE peek(vm, 0).v
         IN IF b = 0
            THEN Panic(vm, "attempt to calculate the remainder with a divisor of zero")
            ELSE push(Popped(vm, 2), Number(a % b))

\* OpCode::Return
DoReturn(vm, i) ==
    LET frame == current_frame(vm)
        popped == [vm EXCEPT !.frames = Front(@)]
    IN IF vm.stack = << >> THEN Exit(popped)
       ELSE FinishReturn(Popped(popped, 1), frame, peek(vm, 0))

\* OpCode::ReturnNil
DoReturnNil(vm, i) ==
    FinishReturn([vm EXCEPT !.frames = Front(@)], current_frame(vm), Nil)

\* A faulty OpCode::SetGlobal, which leaves the binding it inserted for an
\* undefined name.
DoSetGlobal_keeps_binding(vm, i) ==
    IF Const(vm, i.a).t = "VString"
    THEN IF vm.stack = << >> THEN Panic(vm, "index out of bounds")
         ELSE IF Const(vm, i.a).v \in DOMAIN vm.globals
              THEN [vm EXCEPT !.globals = TableInsert(@, Const(vm, i.a).v, peek(vm, 0))]
              ELSE runtime_error(
                     [vm EXCEPT !.globals = TableInsert(@, Const(vm, i.a).v, peek(vm, 0))],
                     UndefinedVariable(vm, Const(vm, i.a).v))
    ELSE runtime_error(vm, InvalidIdentifier)

\* OpCode::SetGlobal
DoSetGlobal(vm, i) ==
    IF Const(vm, i.a).t = "VString"
    THEN LET string_ref == Const(vm, i.a).v
         IN IF vm.stack = << >> THEN Panic(vm, "index out of bounds")
            ELSE IF string_ref \in DOMAIN vm.globals
                 THEN [vm EXCEPT !.globals = TableInsert(@, string_ref, peek(vm, 0))]
                 ELSE runtime_error(
                        [vm EXCEPT !.globals =
                            TableRemove(TableInsert(@, string_ref, peek(vm, 0)), string_ref)],
                        UndefinedVariable(vm, string_ref))
    ELSE runtime_error(vm, InvalidIdentifier)

\* OpCode::SetProperty
DoSetProperty(vm, i) ==
    IF Len(vm.stack) < 2 THEN Panic(vm, "index out of bounds")
    ELSE IF peek(vm, 1).t = "Instance"
    THEN IF Const(vm, i.a).t = "VString"
         THEN LET instance == peek(vm, 1).v
                  value == peek(vm, 0)
                  p == Popped(vm, 1)
              IN IF ~IsA(p, instance, "Instance") THEN DerefFail(p, instance)
                 ELSE push(Popped([p EXCEPT !.objects[instance + 1].object.fields =
                                      TableInsert(@, Const(vm, i.a).v, value)], 1),
                           value)
         ELSE runtime_error(vm, InvalidIdentifier)
    ELSE runtime_error(vm, "Only instances have fields.")

\* OpCode::SuperInvoke
DoSuperInvoke(vm, i) ==
    IF Const(vm, i.a).t = "VString"
    THEN IF vm.stack = << >> THEN Exit(vm)
         ELSE IF peek(vm, 0).t = "Class"
         THEN invoke_from_class(Popped(vm, 1), peek(vm, 0).v, Const(vm, i.a).v, i.b)
         ELSE runtime_error(Popped(vm, 1), "No class found on the stack.")
    ELSE runtime_error(vm, InvalidIdentifier)

\* A faulty SET_UPVALUE, which writes the stack slot even of a closed cell.
DoSetUpvalue_to_stack(vm, i) ==
    IF i.a >= Len(current_closure(vm).upvalues) \/ vm.stack = << >>
    THEN Panic(vm, "index out of bounds")
    ELSE LET upvalue == At(current_closure(vm).upvalues, i.a)
             value == peek(vm, 0)
         IN IF ~IsA(vm, upvalue, "Upvalue") THEN DerefFail(vm, upvalue)
            ELSE IF Obj(vm, upvalue).location >= Len(vm.stack)
                 THEN Panic(vm, "index out of bounds")
                 ELSE [vm EXCEPT !.stack[Obj(vm, upvalue).location + 1] = value]

\* OpCode::SetUpvalue
DoSetUpvalue(vm, i) ==
    IF i.a >= Len(current_closure(vm).upvalues) \/ vm.stack = << >>
    THEN Panic(vm, "index out of bounds")
    ELSE LET upvalue == At(current_closure(vm).upvalues, i.a)
             value == peek(vm, 0)
         IN IF ~IsA(vm, upvalue, "Upvalue") THEN DerefFail(vm, upvalue)
            ELSE IF Obj(vm, upvalue).closed.t = "None"
                 THEN IF Obj(vm, upvalue).location >= Len(vm.stack)
                      THEN Panic(vm, "index out of bounds")
                      ELSE [vm EXCEPT !.stack[Obj(vm, upvalue).location + 1] = value]
                 ELSE [vm EXCEPT !.objects[upvalue + 1].object.closed = value]

-----------------------------------------------------------------------------
(* The compiler (compiler.rs), as far as the model needs it.  A program is  *)
(* given as the functions the parser compiles, in the order their           *)
(* compilation ends (a nested function before the function around it, the  *)
(* script last).  Each is the instruction sequence the parser emits for its *)
(* body, with the constants it adds, except for return statements, which    *)
(* are left as the markers ReturnStmt (`return;`) and ReturnValueStmt (the   *)
(* end of `return e;`, after the code of e), for the statements and         *)
(* operators that jump, whose parts are given and whose jumps are emitted   *)
(* and patched here, and for the places where the parser reports an error.  *)

Ins(op) == [op |-> op, a |-> 0, b |-> 0]
Ins1(op, a) == [op |-> op, a |-> a, b |-> 0]
Ins2(op, a, b) == [op |-> op, a |-> a, b |-> b]

KNum(n) == [c |-> "num", n |-> n, s |-> ""]
KStr(s) == [c |-> "str", n |-> 0, s |-> s]
KFun(k) == [c |-> "fun", n |-> k, s |-> ""]     \* the k-th function of the program

Up(index, is_local) == [index |-> index, is_local |-> is_local]

Fn(name, ftype, arity, upvalues, constants, body) ==
    [name |-> name, ftype |-> ftype, arity |-> arity, upvalues |-> upvalues,
     constants |-> constants, body |-> body]

\* A faulty emit_return, which ends an initializer like any other function.
emit_return_nil(function_type) == <<Ins("ReturnNil")>>

\* Parser::emit_return
emit_return(function_type) ==
    IF function_type = "Initializer" THEN <<Ins1("GetLocal", 0), Ins("Return")>>
    ELSE <<Ins("ReturnNil")>>

\* Parser::return_statement: whether it reports an error, and what it emits
\* after the code of the returned expression
return_statement(function_type, has_value) ==
    [error |-> (function_type = "Script")
               \/ (has_value /\ function_type = "Initializer"),
     code |-> IF has_value THEN <<Ins("Return")>> ELSE emit_return(function_type)]

\* Statements and operators that jump.  Their parts are item sequences.
IfStmt(cond, body, orelse) ==
    [op |-> "IfStmt", cond |-> cond, body |-> body, orelse |-> orelse]
WhileStmt(cond, body) == [op |-> "WhileStmt", cond |-> cond, body |-> body]
\* an absent clause is << >>
ForStmt(init, cond, incr, body) ==
    [op |-> "ForStmt", init |-> init, cond |-> cond, incr |-> incr, body |-> body]
AndOp(rhs) == [op |-> "AndOp", rhs |-> rhs]
OrOp(rhs) == [op |-> "OrOp", rhs |-> rhs]

\* A block, a variable declaration with the items of its initializer, a
\* function declaration, a variable read and an assignment.  global is the
\* constant of the name, used when the name is not a local nor an upvalue,
\* and function the constant of the function in the enclosing chunk.
Block(items) == [op |-> "Block", items |-> items]
VarDecl(name, global, init) ==
    [op |-> "VarDecl", name |-> name, global |-> global, init |-> init]
FunDecl(name, global, function, params, constants, body) ==
    [op |-> "FunDecl", name |-> name, global |-> global, function |-> function,
     params |-> params, constants |-> constants, body |-> body]
Variable(name, global) == [op |-> "Variable", name |-> name, global |-> global]
Assign(name, global, rhs) ==
    [op |-> "Assign", name |-> name, global |-> global, rhs |-> rhs]

\* A place where the parser finds the source wrong and calls error or
\* error_at_current.
ErrorAt(msg) == [op |-> "ErrorAt", message |-> msg]

\* A declaration in which errors are found: its items, the type of the token
\* in Parser.previous when it ends and the types of the tokens from
\* Parser.current on.
Declaration(items, previous, ahead) ==
    [op |-> "Declaration", items |-> items, previous |-> previous, ahead |-> ahead]

\* The token types at which Parser::synchronize stops.
StatementStart == {"Class", "Fun", "Var", "For", "If", "While", "Print", "Return"}

\* What the parser did that a user can see (history).
Event(ev, msg, previous, current, had_error) ==
    [ev |-> ev, message |-> msg, previous |-> previous, current |-> current,
     had_error |-> had_error]

\* Parser::new; code is the chunk of the function being compiled, loops the
\* loop starts it recorded (history), ret the result of the last call,
\* compilers the chain of enclosing compilers with Parser.compiler last, lines
\* the line runs of the chunk, line the line of Parser.previous, functions
\* what pop_compiler returned so far, compiled the functions of the last
\* compilation with their handles, marks the places in the code of what the
\* parser compiled (history).
NewParser ==
    [had_error |-> FALSE, panic_mode |-> FALSE, log |-> << >>, code |-> << >>,
     loops |-> {}, aborted |-> FALSE, ret |-> 0, compilers |-> << >>,
     lines |-> << >>, line |-> 1, functions |-> << >>, compiled |-> << >>,
     marks |-> << >>]

Local(name, depth) == [name |-> name, depth |-> depth, is_captured |-> FALSE]

\* Compiler::new: slot 0 of the locals belongs to the function itself, or to
\* this.  The chunk, its lines and its loops are kept here while a function
\* nested in this one is compiled.
Compiler_new(name, function_type) ==
    [name |-> name, function_type |-> function_type, scope_depth |-> 0, arity |-> 0,
     locals |-> <<Local(IF function_type \in {"Method", "Initializer"}
                        THEN "this" ELSE "", 0)>>,
     upvalues |-> << >>, code |-> << >>, lines |-> << >>, loops |-> {}]

\* Parser::push_compiler: a new function, with an empty chunk, enclosed by
\* the one compiled so far
push_compiler(p, name, function_type) ==
    [p EXCEPT !.code = << >>, !.lines = << >>, !.loops = {},
              !.compilers =
                  Append(IF @ = << >> THEN @
                         ELSE [@ EXCEPT ![Len(@)].code = p.code,
                                        ![Len(@)].lines = p.lines,
                                        ![Len(@)].loops = p.loops],
                         Compiler_new(name, function_type))]

\* A faulty error_at, which reports in panic mode too.
error_at_always(p, msg) ==
    [p EXCEPT !.had_error = TRUE, !.panic_mode = TRUE,
              !.log = Append(@, Event("error", msg, "", "", TRUE))]

\* Parser::error_at, for Parser::error and Parser::error_at_current
error_at(p, msg) ==
    IF p.panic_mode THEN p
    ELSE [p EXCEPT !.had_error = TRUE, !.panic_mode = TRUE,
                   !.log = Append(@, Event("error", msg, "", "", TRUE))]

\* Parser::advance, as the loop of Parser::synchronize sees it: the tokens
\* from the new current one on, in .ret
RECURSIVE advance(_, _)
advance(p, ahead) ==
    IF Len(ahead) > 1 /\ ahead[2] = "Error"
    THEN advance(error_at(p, "scan error"), Tail(ahead))
    ELSE [p EXCEPT !.ret = Tail(ahead)]

RECURSIVE SkipTokens(_, _, _)
SkipTokens(p, previous, ahead) ==
    LET current == IF ahead = << >> THEN "Eof" ELSE ahead[1]
    IN IF current = "Eof" \/ previous = "Semicolon" \/ current \in StatementStart
       THEN [p EXCEPT !.log = Append(@, Event("resume", "", previous, current,
                                              p.had_error))]
       ELSE SkipTokens(advance(p, ahead), current, advance(p, ahead).ret)

\* Parser::synchronize
synchronize(p, previous, ahead) ==
    SkipTokens([p EXCEPT !.panic_mode = FALSE,
                         !.log = Append(@, Event("synchronize", "", "", "", p.had_error))],
               previous, ahead)

\* A faulty add_line, which lengthens the last run whatever its line.
add_line_merges(lines, line) ==
    LET last == Len(lines)
    IN IF last > 0
       THEN [lines EXCEPT ![last] = [count |-> lines[last].count + 1,
                                     line |-> lines[last].line]]
       ELSE Append(lines, [count |-> 1, line |-> line])

\* Chunk::add_line: the lines are runs of (count, line)
add_line(lines, line) ==
    LET last == Len(lines)
    IN IF last > 0 /\ lines[last].line = line
       THEN [lines EXCEPT ![last] = [count |-> lines[last].count + 1, line |-> line]]
       ELSE Append(lines, [count |-> 1, line |-> line])

\* Chunk::write
write(chunk, opcode, line) ==
    [chunk EXCEPT !.code = Append(@, opcode), !.lines = add_line(@, line)]

\* The loop of Chunk::get_line: the value of i when it ends
RECURSIVE get_line_loop(_, _, _, _)
get_line_loop(lines, index, ind, i) ==
    IF ind <= index /\ i < Len(lines)
    THEN get_line_loop(lines, index, ind + At(lines, i).count, i + 1)
    ELSE i

\* Chunk::get_line; 0 stands for the panic of lines[i - 1] when i is 0
get_line(chunk, index) ==
    LET i == get_line_loop(chunk.lines, index, 0, 0)
    IN IF i = 0 THEN 0 ELSE At(chunk.lines, i - 1).line

\* Parser::emit_opcode
emit_opcode(p, opcode) == write(p, opcode, p.line)

\* Parser::emit_opcode for each instruction of a sequence
RECURSIVE emit_opcodes(_, _)
emit_opcodes(p, code) ==
    IF code = << >> THEN p ELSE emit_opcodes(emit_opcode(p, code[1]), Tail(code))

\* Parser::emit_pop
emit_pop(p) == emit_opcode(p, Ins("Pop"))

\* Parser::emit_jump: the index of the jump is in .ret
emit_jump(p, jump) == [emit_opcode(p, jump) EXCEPT !.ret = Len(p.code)]

\* Parser::patch_jump
patch_jump(p, then) ==
    IF At(p.code, then).op \in {"JumpIfFalse", "Jump"}
    THEN [p EXCEPT !.code[then + 1].a = Len(p.code) - then - 1]
    ELSE [p EXCEPT !.aborted = TRUE]

\* Parser::start_loop
start_loop(p) == Len(p.code)

\* Parser.compiler
compiler_of(p) == Last(p.compilers)

\* Parser::begin_scope
begin_scope(p) == [p EXCEPT !.compilers[Len(p.compilers)].scope_depth = @ + 1]

\* The loop of Parser::end_scope, from index i down: the local at i decides,
\* the last local goes
RECURSIVE end_scope_loop(_, _)
end_scope_loop(p, i) ==
    IF i < 0 THEN p
    ELSE IF At(compiler_of(p).locals, i).depth > compiler_of(p).scope_depth
    THEN end_scope_loop(
             [(IF At(compiler_of(p).locals, i).is_captured
               THEN emit_opcode(p, Ins("CloseUpvalue")) ELSE emit_pop(p))
                 EXCEPT !.compilers[Len(p.compilers)].locals = Front(@)],
             i - 1)
    ELSE end_scope_loop(p, i - 1)

\* Parser::end_scope
end_scope(p) ==
    end_scope_loop([p EXCEPT !.compilers[Len(p.compilers)].scope_depth = @ - 1],
                   Len(compiler_of(p).locals) - 1)

\* Compiler::is_local_defined, over the locals from index i down
RECURSIVE is_local_defined_from(_, _, _)
is_local_defined_from(compiler, name, i) ==
    IF i < 0 THEN FALSE
    ELSE IF At(compiler.locals, i).depth # -1
            /\ At(compiler.locals, i).depth < compiler.scope_depth
    THEN FALSE
    ELSE IF At(compiler.locals, i).name = name THEN TRUE
    ELSE is_local_defined_from(compiler, name, i - 1)

is_local_defined(compiler, name) ==
    is_local_defined_from(compiler, name, Len(compiler.locals) - 1)

\* Parser::add_local
add_local(p, name) ==
    [p EXCEPT !.compilers[Len(p.compilers)].locals = Append(@, Local(name, -1))]

\* Parser::declare_varible
declare_varible(p, name) ==
    IF compiler_of(p).scope_depth = 0 THEN p
    ELSE add_local(IF is_local_defined(compiler_of(p), name)
                   THEN error_at(p, "Already a variable with this name in this scope.")
                   ELSE p,
                   name)

\* Parser::mark_initialized
mark_initialized(p) ==
    IF compiler_of(p).scope_depth = 0 THEN p
    ELSE [p EXCEPT !.compilers[Len(p.compilers)].locals[Len(compiler_of(p).locals)].depth =
                       compiler_of(p).scope_depth]

\* Parser::define_variable; what became of a local is recorded (history):
\* the function, the index of the local and the length of the code
define_variable(p, global) ==
    IF compiler_of(p).scope_depth > 0
    THEN [mark_initialized(p) EXCEPT
             !.marks = Append(@, [ev |-> "local", fn |-> compiler_of(p).name,
                                  index |-> Len(compiler_of(p).locals) - 1,
                                  at |-> Len(p.code)])]
    ELSE emit_opcode(p, Ins1("DefineGlobal", global))

\* Compiler::resolve_local: the index, or -1 for None, and whether it pushed
\* an error
RECURSIVE resolve_local_from(_, _, _)
resolve_local_from(compiler, name, i) ==
    IF i < 0 THEN [index |-> -1, error |-> FALSE]
    ELSE IF At(compiler.locals, i).name = name
    THEN [index |-> i, error |-> At(compiler.locals, i).depth = -1]
    ELSE resolve_local_from(compiler, name, i - 1)

Compiler_resolve_local(compiler, name) ==
    resolve_local_from(compiler, name, Len(compiler.locals) - 1)

OwnInitializer == "Can't read local variable in its own initializer."

\* Parser::resolve_local: the index in .ret
resolve_local(p, name) ==
    LET r == Compiler_resolve_local(compiler_of(p), name)
    IN [(IF r.error THEN error_at(p, OwnInitializer) ELSE p) EXCEPT !.ret = r.index]

\* A faulty add_upvalue, which never looks for the descriptor it has.
add_upvalue_always(compilers, k, index, is_local) ==
    [compilers |-> [compilers EXCEPT ![k].upvalues = Append(@, Up(index, is_local))],
     index |-> Len(compilers[k].upvalues)]

\* Compiler::add_upvalue on the compiler at level k of the chain: the chain
\* and the index
add_upvalue(compilers, k, index, is_local) ==
    LET found == {i \in 1..Len(compilers[k].upvalues) :
                     compilers[k].upvalues[i] = Up(index, is_local)}
    IN IF found # {}
       THEN [compilers |-> compilers,
             index |-> (CHOOSE i \in found : \A j \in found : i <= j) - 1]
       ELSE [compilers |-> [compilers EXCEPT ![k].upvalues = Append(@, Up(index, is_local))],
             index |-> Len(compilers[k].upvalues)]

\* Compiler::resolve_upvalue on the compiler at level k of the chain: the
\* chain, the index or -1 for None, and whether an error was pushed
RECURSIVE Compiler_resolve_upvalue(_, _, _)
Compiler_resolve_upvalue(compilers, k, name) ==
    IF k <= 1 THEN [compilers |-> compilers, index |-> -1, error |-> FALSE]
    ELSE LET local == Compiler_resolve_local(compilers[k - 1], name)
         IN IF local.index # -1
            THEN LET u == add_upvalue([compilers EXCEPT
                                          ![k - 1].locals[local.index + 1].is_captured = TRUE],
                                      k, local.index, TRUE)
                 IN [compilers |-> u.compilers, index |-> u.index, error |-> local.error]
            ELSE LET up == Compiler_resolve_upvalue(compilers, k - 1, name)
                 IN IF up.index # -1
                    THEN LET u == add_upvalue(up.compilers, k, up.index, FALSE)
                         IN [compilers |-> u.compilers, index |-> u.index,
                             error |-> up.error]
                    ELSE [compilers |-> compilers, index |-> -1, error |-> up.error]

\* Parser::resolve_upvalue: the index in .ret
resolve_upvalue(p, name) ==
    LET r == Compiler_resolve_upvalue(p.compilers, Len(p.compilers), name)
    IN [(IF r.error THEN error_at(p, OwnInitializer) ELSE p)
           EXCEPT !.compilers = r.compilers, !.ret = r.index]

\* Parser::code_len
code_len(p) == Len(p.code)

\* A faulty emit_loop, which counts the LOOP instruction itself.
emit_loop_counting_itself(p, start) ==
    [emit_opcode(p, Ins1("Loop", code_len(p) + 1 - start))
        EXCEPT !.loops = @ \cup {[at |-> code_len(p), start |-> start]}]

\* Parser::emit_loop; the start it was given is recorded with the index of the
\* instruction
emit_loop(p, start) ==
    [emit_opcode(p, Ins1("Loop", code_len(p) - start))
        EXCEPT !.loops = @ \cup {[at |-> code_len(p), start |-> start]}]

RECURSIVE Items(_, _, _)

\* Parser::if_statement
if_statement(function_type, p, s) ==
    LET then == emit_jump(Items(function_type, p, s.cond), Ins1("JumpIfFalse", 0))
        else_jump == emit_jump(Items(function_type, emit_pop(then), s.body),
                               Ins1("Jump", 0))
    IN patch_jump(Items(function_type, emit_pop(patch_jump(else_jump, then.ret)),
                        s.orelse),
                  else_jump.ret)

\* Parser::while_statement
while_statement(function_type, p, s) ==
    LET exit == emit_jump(Items(function_type, p, s.cond), Ins1("JumpIfFalse", 0))
    IN emit_pop(patch_jump(emit_loop(Items(function_type, emit_pop(exit), s.body),
                                     start_loop(p)),
                           exit.ret))

\* The condition clause of Parser::for_statement
ForCondition(function_type, p, s) ==
    IF s.cond = << >> THEN p
    ELSE emit_pop(emit_jump(Items(function_type, p, s.cond), Ins1("JumpIfFalse", 0)))

\* A faulty increment clause: the body loops back to the condition.
ForIncrementSkipped(function_type, p, s, loop_start) ==
    IF s.incr = << >> THEN [p EXCEPT !.ret = loop_start]
    ELSE LET body_jump == emit_jump(p, Ins1("Jump", 0))
         IN [patch_jump(emit_loop(emit_pop(Items(function_type, body_jump, s.incr)),
                                  loop_start),
                        body_jump.ret)
                EXCEPT !.ret = loop_start]

\* The increment clause of Parser::for_statement: the start of the loop is
\* in .ret
ForIncrement(function_type, p, s, loop_start) ==
    IF s.incr = << >> THEN [p EXCEPT !.ret = loop_start]
    ELSE LET body_jump == emit_jump(p, Ins1("Jump", 0))
         IN [patch_jump(emit_loop(emit_pop(Items(function_type, body_jump, s.incr)),
                                  loop_start),
                        body_jump.ret)
                EXCEPT !.ret = start_loop(body_jump)]

\* The places of a `for` are recorded (history): where the statement, the
\* condition, the increment and the body begin, the index of the jump that
\* tests the condition and of the instruction after the last LOOP, where the
\* statement ends, and the number of locals before it (-1: no such clause).
MarkedFor(p, start, init, cond, incr, body, has_cond, has_incr) ==
    [p EXCEPT !.marks = Append(@, [ev |-> "for", fn |-> compiler_of(p).name,
                                   at |-> Len(start.code), end |-> Len(p.code),
                                   cond |-> Len(init.code),
                                   exit |-> IF has_cond THEN cond.ret ELSE -1,
                                   incr |-> IF has_incr THEN incr.ret ELSE -1,
                                   body |-> Len(incr.code), out |-> Len(body.code),
                                   locals |-> Len(compiler_of(start).locals)])]

\* Parser::for_statement
for_statement(function_type, p, s) ==
    LET init == Items(function_type, begin_scope(p), s.init)
        cond == ForCondition(function_type, init, s)
        incr == ForIncrement(function_type, cond, s, start_loop(init))
        body == emit_loop(Items(function_type, incr, s.body), incr.ret)
    IN MarkedFor(end_scope(IF s.cond = << >> THEN body
                           ELSE emit_pop(patch_jump(body, cond.ret))),
                 p, init, cond, incr, body, s.cond # << >>, s.incr # << >>)

\* The place of an operator or a statement that jumps is recorded (history):
\* the function, the index of its first jump and the length of the code when
\* it ends.
Marked(p, ev, at) ==
    [p EXCEPT !.marks = Append(@, [ev |-> ev, fn |-> compiler_of(p).name, at |-> at,
                                   end |-> Len(p.code)])]

\* Parser::and_op
and_op(function_type, p, s) ==
    LET end == emit_jump(p, Ins1("JumpIfFalse", 0))
    IN Marked(patch_jump(Items(function_type, emit_pop(end), s.rhs), end.ret),
              "and", end.ret)

\* Parser::or_op
or_op(function_type, p, s) ==
    LET else_jump == emit_jump(p, Ins1("JumpIfFalse", 0))
        end_jump == emit_jump(else_jump, Ins1("Jump", 0))
    IN Marked(patch_jump(Items(function_type,
                               emit_pop(patch_jump(end_jump, else_jump.ret)), s.rhs),
                         end_jump.ret),
              "or", else_jump.ret)

\* The end of Parser::declaration
declaration(function_type, p, s) ==
    LET d == Items(function_type, p, s.items)
    IN IF d.panic_mode THEN synchronize(d, s.previous, s.ahead) ELSE d

\* The errors of Parser::return_statement and what it emits
ReturnItem(function_type, p, has_value) ==
    LET r == return_statement(function_type, has_value)
        q == IF r.error
             THEN error_at(p, IF function_type = "Script"
                              THEN "Can't return from top-level code."
                              ELSE "Can't return a value from an initializer.")
             ELSE p
    IN emit_opcodes(q, r.code)

\* Parser::block between begin_scope and end_scope, of Parser::statement
block_statement(function_type, p, s) ==
    end_scope(Items(function_type, begin_scope(p), s.items))

\* Parser::parse_variable without the constant, which the item holds
parse_variable(p, name) == declare_varible(p, name)

\* Parser::var_declaration
var_declaration(function_type, p, s) ==
    define_variable(Items(function_type, parse_variable(p, s.name), s.init), s.global)

\* Parser::named_variable: the instruction is in .ret
named_variable(p, s, get_local, get_upvalue, get_global) ==
    LET local == resolve_local(p, s.name)
        upvalue == resolve_upvalue(local, s.name)
    IN IF local.ret # -1 THEN [local EXCEPT !.ret = Ins1(get_local, local.ret)]
       ELSE IF upvalue.ret # -1 THEN [upvalue EXCEPT !.ret = Ins1(get_upvalue, upvalue.ret)]
       ELSE [upvalue EXCEPT !.ret = Ins1(get_global, s.global)]

\* Parser::named_variable for a read
variable(p, s) ==
    LET named == named_variable(p, s, "GetLocal", "GetUpvalue", "GetGlobal")
    IN emit_opcode(named, named.ret)

\* Parser::named_variable for an assignment
assignment(function_type, p, s) ==
    LET named == named_variable(p, s, "SetLocal", "SetUpvalue", "SetGlobal")
    IN emit_opcode(Items(function_type, named, s.rhs), named.ret)

\* The parameters of Parser::function
RECURSIVE parameters(_, _)
parameters(p, params) ==
    IF params = << >> THEN p
    ELSE parameters(
             define_variable(
                 parse_variable([p EXCEPT !.compilers[Len(p.compilers)].arity = @ + 1],
                                params[1]),
                 0),
             Tail(params))

\* Parser::pop_compiler: the function is the last of .functions
pop_compiler(p, constants) ==
    LET done == emit_opcodes(p, emit_return(compiler_of(p).function_type))
        enclosing == done.compilers[Len(done.compilers) - 1]
    IN [done EXCEPT !.functions =
                        Append(@, [name |-> compiler_of(done).name,
                                   ftype |-> compiler_of(done).function_type,
                                   arity |-> compiler_of(done).arity,
                                   upvalues |-> compiler_of(done).upvalues,
                                   constants |-> constants, code |-> done.code]),
                    !.compilers = Front(@), !.code = enclosing.code,
                    !.lines = enclosing.lines, !.loops = enclosing.loops]

\* Parser::function up to the block of the body
begin_function(p, s) ==
    parameters(begin_scope(push_compiler(p, s.name, "Function")), s.params)

\* Parser::function after the block of the body
end_function(p, s) ==
    emit_opcode(pop_compiler(p, s.constants), Ins1("Closure", s.function))

\* Parser::function
function(p, s) == end_function(Items("Function", begin_function(p, s), s.body), s)

\* Parser::fun_declaration
fun_declaration(p, s) ==
    define_variable(function(mark_initialized(parse_variable(p, s.name)), s), s.global)

\* What the parser does with one item.
Item(function_type, p, s) ==
    CASE s.op = "IfStmt" -> if_statement(function_type, p, s)
      [] s.op = "WhileStmt" -> while_statement(function_type, p, s)
      [] s.op = "ForStmt" -> for_statement(function_type, p, s)
      [] s.op = "AndOp" -> and_op(function_type, p, s)
      [] s.op = "OrOp" -> or_op(function_type, p, s)
      [] s.op = "ErrorAt" -> error_at(p, s.message)
      [] s.op = "Declaration" -> declaration(function_type, p, s)
      [] s.op \in {"ReturnStmt", "ReturnValueStmt"} ->
            ReturnItem(function_type, p, s.op = "ReturnValueStmt")
      [] s.op = "Block" -> block_statement(function_type, p, s)
      [] s.op = "VarDecl" -> var_declaration(function_type, p, s)
      [] s.op = "FunDecl" -> fun_declaration(p, s)
      [] s.op = "Variable" -> variable(p, s)
      [] s.op = "Assign" -> assignment(function_type, p, s)
      [] OTHER -> emit_opcode(p, s)

Items(function_type, p, items) ==
    IF p.aborted \/ items = << >> THEN p
    ELSE Items(function_type, Item(function_type, p, items[1]), Tail(items))

\* The code of a function body, the loop starts recorded in it and whether an
\* error was reported in it.
CompileBody(function_type, body) ==
    Items(function_type, push_compiler(NewParser, "", function_type), body)

\* The constants of a function: strings are interned (Parser::string,
\* Parser::identifier_constant), functions are those allocated before.
RECURSIVE ResolveConstants(_, _, _, _)
ResolveConstants(vm, ks, functions, acc) ==
    IF ks = << >> THEN [vm EXCEPT !.ret = acc]
    ELSE CASE ks[1].c = "num" ->
                ResolveConstants(vm, Tail(ks), functions, Append(acc, Number(ks[1].n)))
           [] ks[1].c = "str" ->
                AndThen(GcIntern(vm, ks[1].s),
                        LAMBDA s : ResolveConstants(s, Tail(ks), functions,
                                                    Append(acc, VString(s.ret))))
           [] OTHER ->
                ResolveConstants(vm, Tail(ks), functions,
                                 Append(acc, FunctionV(functions[ks[1].n])))

\* The function of a compiler that has no enclosing one, when its body is
\* compiled: the upvalues of such a function are given with it.
Compiled(f, body) ==
    [name |-> f.name, ftype |-> f.ftype, arity |-> f.arity, upvalues |-> f.upvalues,
     constants |-> f.constants, code |-> body.code \o emit_return(f.ftype)]

\* Parser::function with push_compiler and pop_compiler for a nested function,
\* Parser::compile for the script: .ret is the handles of the functions, and
\* .parser the parser.  The functions declared in the body of a function are
\* allocated before it.
RECURSIVE CompileFunctions(_, _, _)
EndFunction(ks, fns, functions, name) ==
    LET f == fns[1]
    IN IF f.ftype = "Script" /\ ks.parser.had_error
       THEN [ks EXCEPT !.ret = functions]
       ELSE AndThen(GcAlloc(ks, FunctionObj(f.arity, f.code, ks.ret, name, f.upvalues)),
                    LAMBDA a :
                        CompileFunctions(
                            [a EXCEPT !.parser.compiled =
                                          Append(@, [name |-> f.name, function |-> a.ret])],
                            Tail(fns), Append(functions, a.ret)))
CompileFunctions(vm, fns, functions) ==
    IF fns = << >> THEN [vm EXCEPT !.ret = functions]
    ELSE IF "code" \in DOMAIN fns[1]
    THEN AndThen(GcIntern(vm, IF fns[1].ftype = "Script" THEN "script" ELSE fns[1].name),
                 LAMBDA named :
                     AndThen(ResolveConstants(named, fns[1].constants, functions, << >>),
                             LAMBDA ks : EndFunction(ks, fns, functions, named.ret)))
    ELSE LET body == Items(fns[1].ftype,
                           push_compiler([vm.parser EXCEPT !.compilers = << >>],
                                         fns[1].name, fns[1].ftype),
                           fns[1].body)
         IN IF body.aborted THEN Panic(vm, "No jump instruction found")
            ELSE CompileFunctions(
                     [vm EXCEPT !.parser = [body EXCEPT !.functions = << >>]],
                     body.functions \o <<Compiled(fns[1], body)>> \o Tail(fns),
                     functions)

\* compiler::compile; of the parser, what it reported is kept
compile(vm, program) ==
    AndThen(CompileFunctions(GcIntern([vm EXCEPT !.parser = NewParser], "script"),
                             program, << >>),
            LAMBDA c : [c EXCEPT !.parser = [@ EXCEPT !.code = << >>, !.loops = {},
                                                      !.ret = 0, !.lines = << >>,
                                                      !.compilers = << >>]])

-----------------------------------------------------------------------------
(* The programs the model runs.  Function names, constants and code follow   *)
(* what the parser emits for the source given with each.                     *)

\* var a = 1; a = 2; { var b = a; print b; }
ProgGlobals == <<
    Fn("", "Script", 0, << >>, <<KStr("a"), KNum(1), KNum(2)>>,
       <<Ins1("Constant", 1), Ins1("DefineGlobal", 0), Ins1("Constant", 2),
         Ins1("SetGlobal", 0), Ins("Pop"), Ins1("GetGlobal", 0), Ins1("GetLocal", 1),
         Ins("Print"), Ins("Pop")>>) >>

\* x = 1;
ProgSetUndefined == <<
    Fn("", "Script", 0, << >>, <<KStr("x"), KNum(1)>>,
       <<Ins1("Constant", 1), Ins1("SetGlobal", 0), Ins("Pop")>>) >>

\* fun f() { return z; } f();
ProgGetUndefined == <<
    Fn("f", "Function", 0, << >>, <<KStr("z")>>,
       <<Ins1("GetGlobal", 0), Ins("ReturnValueStmt")>>),
    Fn("", "Script", 0, << >>, <<KStr("f"), KFun(1)>>,
       <<Ins1("Closure", 1), Ins1("DefineGlobal", 0), Ins1("GetGlobal", 0),
         Ins1("Call", 0), Ins("Pop")>>) >>

\* var s = [1 + "x"]; var t = "a" + "b"; print s[0];
ProgArrayGlobal == <<
    Fn("", "Script", 0, << >>,
       <<KStr("s"), KNum(1), KStr("x"), KStr("t"), KStr("a"), KStr("b"), KNum(0)>>,
       <<Ins1("Constant", 1), Ins1("Constant", 2), Ins("Add"), Ins1("BuildList", 1),
         Ins1("DefineGlobal", 0), Ins1("Constant", 4), Ins1("Constant", 5), Ins("Add"),
         Ins1("DefineGlobal", 3), Ins1("GetGlobal", 0), Ins1("Constant", 6),
         Ins("GetIndexArray"), Ins("Print")>>) >>

\* var u = [1 + "x"] + ["y"]; print u[0];
ProgArrayConcat == <<
    Fn("", "Script", 0, << >>,
       <<KStr("u"), KNum(1), KStr("x"), KStr("y"), KNum(0)>>,
       <<Ins1("Constant", 1), Ins1("Constant", 2), Ins("Add"), Ins1("BuildList", 1),
         Ins1("Constant", 3), Ins1("BuildList", 1), Ins("Add"), Ins1("DefineGlobal", 0),
         Ins1("GetGlobal", 0), Ins1("Constant", 4), Ins("GetIndexArray"),
         Ins("Print")>>) >>

\* print true.toString() == "true";
ProgToString == <<
    Fn("", "Script", 0, << >>, <<KStr("toString"), KStr("true")>>,
       <<Ins("True"), Ins2("Invoke", 0, 0), Ins1("Constant", 1), Ins("Equal"),
         Ins("Print")>>) >>

\* fun f(a) { return a; } print f(1); f();
ProgArity == <<
    Fn("f", "Function", 1, << >>, << >>,
       <<Ins1("GetLocal", 1), Ins("ReturnValueStmt")>>),
    Fn("", "Script", 0, << >>, <<KStr("f"), KFun(1), KNum(1)>>,
       <<Ins1("Closure", 1), Ins1("DefineGlobal", 0), Ins1("GetGlobal", 0),
         Ins1("Constant", 2), Ins1("Call", 1), Ins("Print"), Ins1("GetGlobal", 0),
         Ins1("Call", 0), Ins("Pop")>>) >>

\* var s; var g;
\* fun make() { var x = 1; fun set() { x = x + 1; } fun get() { return x; }
\*              s = set; g = get; set(); print get(); }
\* make(); s(); print g(); make();
ProgCounter == <<
    Fn("set", "Function", 0, <<Up(1, TRUE)>>, <<KNum(1)>>,
       <<Ins1("GetUpvalue", 0), Ins1("Constant", 0), Ins("Add"), Ins1("SetUpvalue", 0),
         Ins("Pop")>>),
    Fn("get", "Function", 0, <<Up(1, TRUE)>>, << >>,
       <<Ins1("GetUpvalue", 0), Ins("ReturnValueStmt")>>),
    Fn("make", "Function", 0, << >>,
       <<KNum(1), KFun(1), KFun(2), KStr("s"), KStr("g")>>,
       <<Ins1("Constant", 0), Ins1("Closure", 1), Ins1("Closure", 2),
         Ins1("GetLocal", 2), Ins1("SetGlobal", 3), Ins("Pop"),
         Ins1("GetLocal", 3), Ins1("SetGlobal", 4), Ins("Pop"),
         Ins1("GetLocal", 2), Ins1("Call", 0), Ins("Pop"),
         Ins1("GetLocal", 3), Ins1("Call", 0), Ins("Print")>>),
    Fn("", "Script", 0, << >>, <<KStr("s"), KStr("g"), KStr("make"), KFun(3)>>,
       <<Ins("Nil"), Ins1("DefineGlobal", 0), Ins("Nil"), Ins1("DefineGlobal", 1),
         Ins1("Closure", 3), Ins1("DefineGlobal", 2), Ins1("GetGlobal", 2),
         Ins1("Call", 0), Ins("Pop"), Ins1("GetGlobal", 0), Ins1("Call", 0), Ins("Pop"),
         Ins1("GetGlobal", 1), Ins1("Call", 0), Ins("Print"),
         Ins1("GetGlobal", 2), Ins1("Call", 0), Ins("Pop")>>) >>

\* var g; { var x = 1; fun get() { return x; } g = get; } print g();
\* { var a = 1; var z = 2; fun h() { return z; } print y; }
ProgBlockCapture == <<
    Fn("get", "Function", 0, <<Up(1, TRUE)>>, << >>,
       <<Ins1("GetUpvalue", 0), Ins("ReturnValueStmt")>>),
    Fn("h", "Function", 0, <<Up(2, TRUE)>>, << >>,
       <<Ins1("GetUpvalue", 0), Ins("ReturnValueStmt")>>),
    Fn("", "Script", 0, << >>,
       <<KStr("g"), KNum(1), KFun(1), KNum(2), KFun(2), KStr("y")>>,
       <<Ins("Nil"), Ins1("DefineGlobal", 0), Ins1("Constant", 1), Ins1("Closure", 2),
         Ins1("GetLocal", 2), Ins1("SetGlobal", 0), Ins("Pop"), Ins("Pop"),
         Ins("CloseUpvalue"), Ins1("GetGlobal", 0), Ins1("Call", 0), Ins("Print"),
         Ins1("Constant", 1), Ins1("Constant", 3), Ins1("Closure", 4),
         Ins1("GetGlobal", 5), Ins("Print"), Ins("Pop"), Ins("CloseUpvalue"),
         Ins("Pop")>>) >>

\* class A { m() { return 1; } n() { return 2; } }
\* class B <| A { n() { return 3; } }
\* var b = B(); print b.m(); print b.n(); b.k();
ProgInherit == <<
    Fn("m", "Method", 0, << >>, <<KNum(1)>>,
       <<Ins1("Constant", 0), Ins("ReturnValueStmt")>>),
    Fn("n", "Method", 0, << >>, <<KNum(2)>>,
       <<Ins1("Constant", 0), Ins("ReturnValueStmt")>>),
    Fn("n", "Method", 0, << >>, <<KNum(3)>>,
       <<Ins1("Constant", 0), Ins("ReturnValueStmt")>>),
    Fn("", "Script", 0, << >>,
       <<KStr("A"), KStr("m"), KFun(1), KStr("n"), KFun(2), KStr("B"), KFun(3),
         KStr("b"), KStr("k")>>,
       <<Ins1("Class", 0), Ins1("DefineGlobal", 0), Ins1("GetGlobal", 0),
         Ins1("Closure", 2), Ins1("Method", 1), Ins1("Closure", 4), Ins1("Method", 3),
         Ins("Pop"),
         Ins1("Class", 5), Ins1("DefineGlobal", 5), Ins1("GetGlobal", 0),
         Ins1("GetGlobal", 5), Ins("Inherit"), Ins1("GetGlobal", 5),
         Ins1("Closure", 6), Ins1("Method", 3), Ins("Pop"), Ins("Pop"),
         Ins1("GetGlobal", 5), Ins1("Call", 0), Ins1("DefineGlobal", 7),
         Ins1("GetGlobal", 7), Ins2("Invoke", 1, 0), Ins("Print"),
         Ins1("GetGlobal", 7), Ins2("Invoke", 3, 0), Ins("Print"),
         Ins1("GetGlobal", 7), Ins2("Invoke", 8, 0), Ins("Pop")>>) >>

\* class P { init(x) { this.x = x; } }
\* class Q { init() { return; } }
\* print P(7).x; var q = Q(); print q; Q(7);
ProgInit == <<
    Fn("init", "Initializer", 1, << >>, <<KStr("x")>>,
       <<Ins1("GetLocal", 0), Ins1("GetLocal", 1), Ins1("SetProperty", 0), Ins("Pop")>>),
    Fn("init", "Initializer", 0, << >>, << >>, <<Ins("ReturnStmt")>>),
    Fn("", "Script", 0, << >>,
       <<KStr("P"), KStr("init"), KFun(1), KStr("Q"), KFun(2), KNum(7), KStr("x"),
         KStr("q")>>,
       <<Ins1("Class", 0), Ins1("DefineGlobal", 0), Ins1("GetGlobal", 0),
         Ins1("Closure", 2), Ins1("Method", 1), Ins("Pop"),
         Ins1("Class", 3), Ins1("DefineGlobal", 3), Ins1("GetGlobal", 3),
         Ins1("Closure", 4), Ins1("Method", 1), Ins("Pop"),
         Ins1("GetGlobal", 0), Ins1("Constant", 5), Ins1("Call", 1),
         Ins1("GetProperty", 6), Ins("Print"),
         Ins1("GetGlobal", 3), Ins1("Call", 0), Ins1("DefineGlobal", 7),
         Ins1("GetGlobal", 7), Ins("Print"),
         Ins1("GetGlobal", 3), Ins1("Constant", 5), Ins1("Call", 1), Ins("Pop")>>) >>

\* class R { init() { return 1; } }
ProgInitReturnsValue == <<
    Fn("init", "Initializer", 0, << >>, <<KNum(1)>>,
       <<Ins1("Constant", 0), Ins("ReturnValueStmt")>>),
    Fn("", "Script", 0, << >>, <<KStr("R"), KStr("init"), KFun(1)>>,
       <<Ins1("Class", 0), Ins1("DefineGlobal", 0), Ins1("GetGlobal", 0),
         Ins1("Closure", 2), Ins1("Method", 1), Ins("Pop")>>) >>

\* var go = true; while (go) go = false;
\* if (go) print 1; else print 2;
\* for (go = true; go; go = false) print 3;
\* print go and 4; print go or 5;
ProgJumps == <<
    Fn("", "Script", 0, << >>,
       <<KStr("go"), KNum(1), KNum(2), KNum(3), KNum(4), KNum(5)>>,
       <<Ins("True"), Ins1("DefineGlobal", 0),
         WhileStmt(<<Ins1("GetGlobal", 0)>>,
                   <<Ins("False"), Ins1("SetGlobal", 0), Ins("Pop")>>),
         IfStmt(<<Ins1("GetGlobal", 0)>>,
                <<Ins1("Constant", 1), Ins("Print")>>,
                <<Ins1("Constant", 2), Ins("Print")>>),
         ForStmt(<<Ins("True"), Ins1("SetGlobal", 0), Ins("Pop")>>,
                 <<Ins1("GetGlobal", 0)>>,
                 <<Ins("False"), Ins1("SetGlobal", 0)>>,
                 <<Ins1("Constant", 3), Ins("Print")>>),
         Ins1("GetGlobal", 0), AndOp(<<Ins1("Constant", 4)>>), Ins("Print"),
         Ins1("GetGlobal", 0), OrOp(<<Ins1("Constant", 5)>>), Ins("Print")>>) >>

\* print 7 % 3; print 5 % 0;
ProgRem == <<
    Fn("", "Script", 0, << >>, <<KNum(7), KNum(3), KNum(5), KNum(0)>>,
       <<Ins1("Constant", 0), Ins1("Constant", 1), Ins("Rem"), Ins("Print"),
         Ins1("Constant", 2), Ins1("Constant", 3), Ins("Rem"), Ins("Print")>>) >>

\* print "n=" + 3; print 3 + "!";
\* var a = [1]; var c = a + a; print nil + 1;
ProgPrintConcat == <<
    Fn("", "Script", 0, << >>,
       <<KStr("n="), KNum(3), KStr("!"), KStr("a"), KNum(1), KStr("c")>>,
       <<Ins1("Constant", 0), Ins1("Constant", 1), Ins("Add"), Ins("Print"),
         Ins1("Constant", 1), Ins1("Constant", 2), Ins("Add"), Ins("Print"),
         Ins1("Constant", 4), Ins1("BuildList", 1), Ins1("DefineGlobal", 3),
         Ins1("GetGlobal", 3), Ins1("GetGlobal", 3), Ins("Add"), Ins1("DefineGlobal", 5),
         Ins("Nil"), Ins1("Constant", 4), Ins("Add"), Ins("Print")>>) >>

\* var 1; print 2 +;
ProgSyntaxErrors == <<
    Fn("", "Script", 0, << >>, <<KNum(2)>>,
       <<Declaration(<<ErrorAt("Expect variable name."), Ins("Nil"),
                       ErrorAt("Expect ';' after variable declaration.")>>,
                     "Var", <<"Number", "Semicolon", "Print", "Number", "Plus",
                              "Semicolon", "Eof">>),
         Declaration(<<Ins1("Constant", 0), ErrorAt("Expect expression."), Ins("Add"),
                       ErrorAt("Expect ';' after value."), Ins("Print")>>,
                     "Semicolon", <<"Eof">>)>>) >>

\* class A {} A(1);
ProgConstruct == <<
    Fn("", "Script", 0, << >>, <<KStr("A"), KNum(1)>>,
       <<Ins1("Class", 0), Ins1("DefineGlobal", 0), Ins1("GetGlobal", 0), Ins("Pop"),
         Ins1("GetGlobal", 0), Ins1("Constant", 1), Ins1("Call", 1), Ins("Pop")>>) >>

\* class A { m() { return this; } copy() { return 1; } e() { return this.q; } }
\* class B <| A { m() { return super.m(); } }
\* var b = B(); b.g = b.m; print b.g() == b;
\* print b.copy(); print b.toString(); b.m = 2; print b.m; b.e();
ProgMethods == <<
    Fn("m", "Method", 0, << >>, << >>,
       <<Ins1("GetLocal", 0), Ins("ReturnValueStmt")>>),
    Fn("copy", "Method", 0, << >>, <<KNum(1)>>,
       <<Ins1("Constant", 0), Ins("ReturnValueStmt")>>),
    Fn("e", "Method", 0, << >>, <<KStr("q")>>,
       <<Ins1("GetLocal", 0), Ins1("GetProperty", 0), Ins("ReturnValueStmt")>>),
    Fn("m", "Method", 0, <<Up(1, TRUE)>>, <<KStr("m")>>,
       <<Ins1("GetLocal", 0), Ins1("GetUpvalue", 0), Ins2("SuperInvoke", 0, 0),
         Ins("ReturnValueStmt")>>),
    Fn("", "Script", 0, << >>,
       <<KStr("A"), KStr("m"), KFun(1), KStr("copy"), KFun(2), KStr("e"), KFun(3),
         KStr("B"), KFun(4), KStr("b"), KStr("g"), KStr("toString"), KNum(2)>>,
       <<Ins1("Class", 0), Ins1("DefineGlobal", 0), Ins1("GetGlobal", 0),
         Ins1("Closure", 2), Ins1("Method", 1), Ins1("Closure", 4), Ins1("Method", 3),
         Ins1("Closure", 6), Ins1("Method", 5), Ins("Pop"),
         Ins1("Class", 7), Ins1("DefineGlobal", 7), Ins1("GetGlobal", 0),
         Ins1("GetGlobal", 7), Ins("Inherit"), Ins1("GetGlobal", 7),
         Ins1("Closure", 8), Ins1("Method", 1), Ins("Pop"), Ins("CloseUpvalue"),
         Ins1("GetGlobal", 7), Ins1("Call", 0), Ins1("DefineGlobal", 9),
         Ins1("GetGlobal", 9), Ins1("GetGlobal", 9), Ins1("GetProperty", 1),
         Ins1("SetProperty", 10), Ins("Pop"),
         Ins1("GetGlobal", 9), Ins2("Invoke", 10, 0), Ins1("GetGlobal", 9), Ins("Equal"),
         Ins("Print"),
         Ins1("GetGlobal", 9), Ins2("Invoke", 3, 0), Ins("Print"),
         Ins1("GetGlobal", 9), Ins2("Invoke", 11, 0), Ins("Print"),
         Ins1("GetGlobal", 9), Ins1("Constant", 12), Ins1("SetProperty", 1), Ins("Pop"),
         Ins1("GetGlobal", 9), Ins1("GetProperty", 1), Ins("Print"),
         Ins1("GetGlobal", 9), Ins2("Invoke", 5, 0), Ins("Pop")>>) >>

\* class S {} var s = S(); s.me = s; class T {}
ProgSelfRef == <<
    Fn("", "Script", 0, << >>, <<KStr("S"), KStr("s"), KStr("me"), KStr("T")>>,
       <<Ins1("Class", 0), Ins1("DefineGlobal", 0), Ins1("GetGlobal", 0), Ins("Pop"),
         Ins1("GetGlobal", 0), Ins1("Call", 0), Ins1("DefineGlobal", 1),
         Ins1("GetGlobal", 1), Ins1("GetGlobal", 1), Ins1("SetProperty", 2), Ins("Pop"),
         Ins1("Class", 3), Ins1("DefineGlobal", 3), Ins1("GetGlobal", 3), Ins("Pop")>>) >>

\* nil.x;
ProgNilProperty == <<
    Fn("", "Script", 0, << >>, <<KStr("x")>>,
       <<Ins("Nil"), Ins1("GetProperty", 0), Ins("Pop")>>) >>

\* var n; class C <| n {}
ProgBadSuper == <<
    Fn("", "Script", 0, << >>, <<KStr("n"), KStr("C")>>,
       <<Ins("Nil"), Ins1("DefineGlobal", 0), Ins1("Class", 1), Ins1("DefineGlobal", 1),
         Ins1("GetGlobal", 0), Ins1("GetGlobal", 1), Ins("Inherit"),
         Ins1("GetGlobal", 1), Ins("Pop"), Ins("Pop")>>) >>

\* { var a = 1; { var b = 2; print b; } var c = 3; print a + c;
\*   fun f(n) { var m = n; return m; } print f(a); }
ProgBlockLocals == <<
    Fn("", "Script", 0, << >>, <<KNum(1), KNum(2), KNum(3), KFun(1)>>,
       <<Block(<<VarDecl("a", 0, <<Ins1("Constant", 0)>>),
                 Block(<<VarDecl("b", 0, <<Ins1("Constant", 1)>>),
                         Variable("b", 0), Ins("Print")>>),
                 VarDecl("c", 0, <<Ins1("Constant", 2)>>),
                 Variable("a", 0), Variable("c", 0), Ins("Add"), Ins("Print"),
                 FunDecl("f", 0, 3, <<"n">>, << >>,
                         <<VarDecl("m", 0, <<Variable("n", 0)>>),
                           Variable("m", 0), Ins("ReturnValueStmt")>>),
                 Variable("f", 0), Variable("a", 0), Ins1("Call", 1), Ins("Print")>>)>>) >>

\* fun outer() { var x = 1;
\*   fun middle() { fun inner() { x = x + 1; return x; } return inner; }
\*   return middle; }
\* print outer()()();
ProgThreaded == <<
    Fn("", "Script", 0, << >>, <<KStr("outer"), KFun(3)>>,
       <<FunDecl("outer", 0, 1, << >>, <<KNum(1), KFun(2)>>,
                 <<VarDecl("x", 0, <<Ins1("Constant", 0)>>),
                   FunDecl("middle", 0, 1, << >>, <<KFun(1)>>,
                           <<FunDecl("inner", 0, 0, << >>, <<KNum(1)>>,
                                     <<Assign("x", 0, <<Variable("x", 0),
                                                        Ins1("Constant", 0), Ins("Add")>>),
                                       Ins("Pop"), Variable("x", 0),
                                       Ins("ReturnValueStmt")>>),
                             Variable("inner", 0), Ins("ReturnValueStmt")>>),
                   Variable("middle", 0), Ins("ReturnValueStmt")>>),
         Variable("outer", 0), Ins1("Call", 0), Ins1("Call", 0), Ins1("Call", 0),
         Ins("Print")>>) >>

\* var g = 0; print nil and (g = 1); print true or (g = 2); print g;
\* print false and 1; print 0 and 1; print "" and 1;
\* print nil or 2; print false or 2; print 0 or 2; print "" or 2;
ProgLogic == <<
    Fn("", "Script", 0, << >>, <<KStr("g"), KNum(0), KNum(1), KNum(2), KStr("")>>,
       <<Ins1("Constant", 1), Ins1("DefineGlobal", 0),
         Ins("Nil"), AndOp(<<Ins1("Constant", 2), Ins1("SetGlobal", 0)>>), Ins("Print"),
         Ins("True"), OrOp(<<Ins1("Constant", 3), Ins1("SetGlobal", 0)>>), Ins("Print"),
         Ins1("GetGlobal", 0), Ins("Print"),
         Ins("False"), AndOp(<<Ins1("Constant", 2)>>), Ins("Print"),
         Ins1("Constant", 1), AndOp(<<Ins1("Constant", 2)>>), Ins("Print"),
         Ins1("Constant", 4), AndOp(<<Ins1("Constant", 2)>>), Ins("Print"),
         Ins("Nil"), OrOp(<<Ins1("Constant", 3)>>), Ins("Print"),
         Ins("False"), OrOp(<<Ins1("Constant", 3)>>), Ins("Print"),
         Ins1("Constant", 1), OrOp(<<Ins1("Constant", 3)>>), Ins("Print"),
         Ins1("Constant", 4), OrOp(<<Ins1("Constant", 3)>>), Ins("Print")>>) >>

\* var a = [1, 2]; print a[1]; print a[-1]; a[-1] = 3; print a[0]; print a[2];
ProgIndex == <<
    Fn("", "Script", 0, << >>,
       <<KStr("a"), KNum(1), KNum(2), KNum(3), KNum(0)>>,
       <<Ins1("Constant", 1), Ins1("Constant", 2), Ins1("BuildList", 2),
         Ins1("DefineGlobal", 0),
         Ins1("GetGlobal", 0), Ins1("Constant", 1), Ins("GetIndexArray"), Ins("Print"),
         Ins1("GetGlobal", 0), Ins1("Constant", 1), Ins("Negate"),
         Ins("GetIndexArray"), Ins("Print"),
         Ins1("GetGlobal", 0), Ins1("Constant", 1), Ins("Negate"), Ins1("Constant", 3),
         Ins("SetIndexArray"), Ins("Pop"),
         Ins1("GetGlobal", 0), Ins1("Constant", 4), Ins("GetIndexArray"), Ins("Print"),
         Ins1("GetGlobal", 0), Ins1("Constant", 2), Ins("GetIndexArray"),
         Ins("Print")>>) >>

\* print "a".length(); print "a".ord(); print 2.square(); print 2.pow(3);
\* with the receivers as constants
ProgBuiltins == <<
    Fn("", "Script", 0, << >>,
       <<KStr("a"), KStr("length"), KStr("ord"), KNum(2), KStr("square"), KStr("pow"),
         KNum(3)>>,
       <<Ins1("Constant", 0), Ins2("Invoke", 1, 0), Ins("Print"),
         Ins1("Constant", 0), Ins2("Invoke", 2, 0), Ins("Print"),
         Ins1("Constant", 3), Ins2("Invoke", 4, 0), Ins("Print"),
         Ins1("Constant", 3), Ins1("Constant", 6), Ins2("Invoke", 5, 1),
         Ins("Print")>>) >>

\* for (var i = 0; i % 2 == i; i = i + 1) print i;
\* fun g() { for (;;) { return 7; } } print g();
ProgFor == <<
    Fn("", "Script", 0, << >>, <<KNum(0), KNum(1), KNum(2), KStr("g"), KFun(1)>>,
       <<ForStmt(<<VarDecl("i", 0, <<Ins1("Constant", 0)>>)>>,
                 <<Variable("i", 0), Ins1("Constant", 2), Ins("Rem"), Variable("i", 0),
                   Ins("Equal")>>,
                 <<Assign("i", 0, <<Variable("i", 0), Ins1("Constant", 1), Ins("Add")>>)>>,
                 <<Variable("i", 0), Ins("Print")>>),
         FunDecl("g", 3, 4, << >>, <<KNum(7)>>,
                 <<ForStmt(<< >>, << >>, << >>,
                           <<Block(<<Ins1("Constant", 0), Ins("ReturnValueStmt")>>)>>)>>),
         Variable("g", 3), Ins1("Call", 0), Ins("Print")>>) >>

Programs == <<ProgGlobals, ProgSetUndefined, ProgGetUndefined, ProgArrayGlobal,
              ProgArrayConcat, ProgToString, ProgArity, ProgCounter, ProgBlockCapture,
              ProgInherit, ProgInit, ProgInitReturnsValue, ProgJumps, ProgRem,
              ProgPrintConcat, ProgSyntaxErrors, ProgConstruct, ProgMethods,
              ProgNilProperty, ProgBadSuper, ProgSelfRef, ProgBlockLocals,
              ProgThreaded, ProgLogic, ProgIndex, ProgBuiltins, ProgFor>>

-----------------------------------------------------------------------------
(* The state machine *)

\* The variables as one record, with room for the result of a call.
Cur == [objects |-> objects, free_slots |-> free_slots, strings |-> strings,
        bytes_allocated |-> bytes_allocated, next_gc |-> next_gc,
        grey_stack |-> grey_stack, stack |-> stack, globals |-> globals,
        frames |-> frames, open_upvalues |-> open_upvalues,
        init_string |-> init_string, status |-> status, message |-> message,
        output |-> output, stress |-> stress, gc_cycles |-> gc_cycles,
        parser |-> parser, ret |-> 0]

\* Vm::define_native
define_native(vm, id) ==
    AndThen(Intern(vm, NativeNames[id]),
            LAMBDA name : [name EXCEPT !.globals = TableInsert(@, name.ret, NativeFnV(id))])

RECURSIVE DefineNatives(_, _)
DefineNatives(vm, id) ==
    IF id > Len(NativeNames) THEN vm ELSE DefineNatives(define_native(vm, id), id + 1)

\* Gc::new and Vm::new
NewVm(stress_feature) ==
    LET gc == [objects |-> << >>, free_slots |-> << >>, strings |-> << >>,
               bytes_allocated |-> 0, next_gc |-> NEXT_GC, grey_stack |-> << >>,
               stack |-> << >>, globals |-> EmptyTable, frames |-> << >>,
               open_upvalues |-> << >>, init_string |-> 0, status |-> "idle",
               message |-> "", output |-> << >>, stress |-> stress_feature,
               gc_cycles |-> 0, parser |-> NewParser, ret |-> 0]
    IN AndThen(GcIntern(gc, "init"),
               LAMBDA interned :
                   DefineNatives([interned EXCEPT !.init_string = interned.ret], 1))

\* The next state is r; an aborted process (panic, exit) keeps the rest of
\* the state it had when it was last observed.
Commit(next, instr) == \E r \in {next} :
    /\ status' = r.status
    /\ message' = r.message
    /\ last_op' = instr
    /\ IF r.status \in {"panic", "exit"}
       THEN UNCHANGED <<objects, free_slots, strings, bytes_allocated, next_gc, grey_stack,
                        stack, globals, frames, open_upvalues, init_string, output,
                        gc_cycles, parser>>
       ELSE /\ objects' = r.objects
            /\ free_slots' = r.free_slots
            /\ strings' = r.strings
            /\ bytes_allocated' = r.bytes_allocated
            /\ next_gc' = r.next_gc
            /\ grey_stack' = r.grey_stack
            /\ stack' = r.stack
            /\ globals' = r.globals
            /\ frames' = r.frames
            /\ open_upvalues' = r.open_upvalues
            /\ init_string' = r.init_string
            /\ output' = r.output
            /\ gc_cycles' = r.gc_cycles
            /\ parser' = r.parser
    /\ UNCHANGED stress

Init ==
    \E feature \in BOOLEAN : \E vm \in {NewVm(feature)} :
           /\ objects = vm.objects
           /\ free_slots = vm.free_slots
           /\ strings = vm.strings
           /\ bytes_allocated = vm.bytes_allocated
           /\ next_gc = vm.next_gc
           /\ grey_stack = vm.grey_stack
           /\ stack = vm.stack
           /\ globals = vm.globals
           /\ frames = vm.frames
           /\ open_upvalues = vm.open_upvalues
           /\ init_string = vm.init_string
           /\ status = "idle"
           /\ message = ""
           /\ output = << >>
           /\ stress = feature
           /\ runs = 0
           /\ gc_cycles = vm.gc_cycles
           /\ parser = vm.parser
           /\ last_op = Ins("New")

\* Vm::interpret up to the call of run
\* A faulty Vm::interpret, which clears the stack when the compiler reports
\* an error, as a runtime error does.
interpret_clears(vm, program) ==
    AndThen(compile(vm, program),
            LAMBDA c :
                IF c.parser.had_error
                THEN [c EXCEPT !.status = "compile_error", !.stack = << >>]
                ELSE AndThen(Alloc(push(c, FunctionV(Last(c.ret))),
                                   ClosureObj(Last(c.ret), << >>)),
                             LAMBDA a : [a EXCEPT !.frames = Append(@, CallFrame(a.ret, 0)),
                                                  !.status = "running"]))

interpret(vm, program) ==
    AndThen(compile(vm, program),
            LAMBDA c :
                IF c.parser.had_error THEN [c EXCEPT !.status = "compile_error"]
                ELSE AndThen(Alloc(push(c, FunctionV(Last(c.ret))),
                                   ClosureObj(Last(c.ret), << >>)),
                             LAMBDA a : [a EXCEPT !.frames = Append(@, CallFrame(a.ret, 0)),
                                                  !.status = "running"]))

\* The REPL (or the file runner, for the first call) hands a program to the VM.
Interpret ==
    /\ status \in {"idle", "ok", "runtime_error", "compile_error"}
    /\ runs < MaxRuns
    /\ \E p \in 1..Len(Programs) :
          /\ Commit(interpret(Cur, Programs[p]), Ins1("Interpret", p))
          /\ runs' = runs + 1

\* The instruction the dispatch loop reads next.
HasInstr ==
    /\ status = "running"
    /\ frames # << >>
    /\ current_frame(Cur).ip < Len(current_function(Cur).code)
CurInstr == At(current_function(Cur).code, current_frame(Cur).ip)

\* The loop's `ip += 1`
Advance(vm) == [vm EXCEPT !.frames[Len(vm.frames)].ip = @ + 1]

\* OpCode::Add
OpAdd ==
    /\ HasInstr
    /\ CurInstr.op = "Add"
    /\ Commit(DoAdd(Advance(Cur), CurInstr), CurInstr)
    /\ UNCHANGED runs

\* OpCode::BuildList
OpBuildList ==
    /\ HasInstr
    /\ CurInstr.op = "BuildList"
    /\ Commit(DoBuildList(Advance(Cur), CurInstr), CurInstr)
    /\ UNCHANGED runs

\* OpCode::Call
OpCall ==
    /\ HasInstr
    /\ CurInstr.op = "Call"
    /\ Commit(DoCall(Advance(Cur), CurInstr), CurInstr)
    /\ UNCHANGED runs

\* OpCode::Class
OpClass ==
    /\ HasInstr
    /\ CurInstr.op = "Class"
    /\ Commit(DoClass(Advance(Cur), CurInstr), CurInstr)
    /\ UNCHANGED runs

\* OpCode::CloseUpvalue
OpCloseUpvalue ==
    /\ HasInstr
    /\ CurInstr.op = "CloseUpvalue"
    /\ Commit(DoCloseUpvalue(Advance(Cur), CurInstr), CurInstr)
    /\ UNCHANGED runs

\* OpCode::Closure
OpClosure ==
    /\ HasInstr
    /\ CurInstr.op = "Closure"
    /\ Commit(DoClosure(Advance(Cur), CurInstr), CurInstr)
    /\ UNCHANGED runs

\* OpCode::Constant
OpConstant ==
    /\ HasInstr
    /\ CurInstr.op = "Constant"
    /\ Commit(DoConstant(Advance(Cur), CurInstr), CurInstr)
    /\ UNCHANGED runs

\* OpCode::DefineGlobal
OpDefineGlobal ==
    /\ HasInstr
    /\ CurInstr.op = "DefineGlobal"
    /\ Commit(DoDefineGlobal(Advance(Cur), CurInstr), CurInstr)
    /\ UNCHANGED runs

\* OpCode::Equal
OpEqual ==
    /\ HasInstr
    /\ CurInstr.op = "Equal"
    /\ Commit(DoEqual(Advance(Cur), CurInstr), CurInstr)
    /\ UNCHANGED runs

\* OpCode::False
OpFalse ==
    /\ HasInstr
    /\ CurInstr.op = "False"
    /\ Commit(DoFalse(Advance(Cur), CurInstr), CurInstr)
    /\ UNCHANGED runs

\* OpCode::GetGlobal
OpGetGlobal ==
    /\ HasInstr
    /\ CurInstr.op = "GetGlobal"
    /\ Commit(DoGetGlobal(Advance(Cur), CurInstr), CurInstr)
    /\ UNCHANGED runs

\* OpCode::GetIndexArray
OpGetIndexArray ==
    /\ HasInstr
    /\ CurInstr.op = "GetIndexArray"
    /\ Commit(DoGetIndexArray(Advance(Cur), CurInstr), CurInstr)
    /\ UNCHANGED runs

\* OpCode::GetLocal
OpGetLocal ==
    /\ HasInstr
    /\ CurInstr.op = "GetLocal"
    /\ Commit(DoGetLocal(Advance(Cur), CurInstr), CurInstr)
    /\ UNCHANGED runs

\* OpCode::GetProperty
OpGetProperty ==
    /\ HasInstr
    /\ CurInstr.op = "GetProperty"
    /\ Commit(DoGetProperty(Advance(Cur), CurInstr), CurInstr)
    /\ UNCHANGED runs

\* OpCode::GetUpvalue
OpGetUpvalue ==
    /\ HasInstr
    /\ CurInstr.op = "GetUpvalue"
    /\ Commit(DoGetUpvalue(Advance(Cur), CurInstr), CurInstr)
    /\ UNCHANGED runs

\* OpCode::Inherit
OpInherit ==
    /\ HasInstr
    /\ CurInstr.op = "Inherit"
    /\ Commit(DoInherit(Advance(Cur), CurInstr), CurInstr)
    /\ UNCHANGED runs

\* OpCode::Invoke
OpInvoke ==
    /\ HasInstr
    /\ CurInstr.op = "Invoke"
    /\ Commit(DoInvoke(Advance(Cur), CurInstr), CurInstr)
    /\ UNCHANGED runs

\* OpCode::Jump
OpJump ==
    /\ HasInstr
    /\ CurInstr.op = "Jump"
    /\ Commit(DoJump(Advance(Cur), CurInstr), CurInstr)
    /\ UNCHANGED runs

\* OpCode::JumpIfFalse
OpJumpIfFalse ==
    /\ HasInstr
    /\ CurInstr.op = "JumpIfFalse"
    /\ Commit(DoJumpIfFalse(Advance(Cur), CurInstr), CurInstr)
    /\ UNCHANGED runs

\* OpCode::Loop
OpLoop ==
    /\ HasInstr
    /\ CurInstr.op = "Loop"
    /\ Commit(DoLoop(Advance(Cur), CurInstr), CurInstr)
    /\ UNCHANGED runs

\* OpCode::Method
OpMethod ==
    /\ HasInstr
    /\ CurInstr.op = "Method"
    /\ Commit(DoMethod(Advance(Cur), CurInstr), CurInstr)
    /\ UNCHANGED runs

\* OpCode::Nil
OpNil ==
    /\ HasInstr
    /\ CurInstr.op = "Nil"
    /\ Commit(DoNil(Advance(Cur), CurInstr), CurInstr)
    /\ UNCHANGED runs

\* OpCode::Pop
OpPop ==
    /\ HasInstr
    /\ CurInstr.op = "Pop"
    /\ Commit(DoPop(Advance(Cur), CurInstr), CurInstr)
    /\ UNCHANGED runs

\* OpCode::Print
OpPrint ==
    /\ HasInstr
    /\ CurInstr.op = "Print"
    /\ Commit(DoPrint(Advance(Cur), CurInstr), CurInstr)
    /\ UNCHANGED runs

\* OpCode::Rem
OpRem ==
    /\ HasInstr
    /\ CurInstr.op = "Rem"
    /\ Commit(DoRem(Advance(Cur), CurInstr), CurInstr)
    /\ UNCHANGED runs

OpSetLocal ==
    /\ HasInstr
    /\ CurInstr.op = "SetLocal"
    /\ Commit(DoSetLocal(Advance(Cur), CurInstr), CurInstr)
    /\ UNCHANGED runs

OpNegate ==
    /\ HasInstr
    /\ CurInstr.op = "Negate"
    /\ Commit(DoNegate(Advance(Cur), CurInstr), CurInstr)
    /\ UNCHANGED runs

OpSetIndexArray ==
    /\ HasInstr
    /\ CurInstr.op = "SetIndexArray"
    /\ Commit(DoSetIndexArray(Advance(Cur), CurInstr), CurInstr)
    /\ UNCHANGED runs

\* OpCode::Return
OpReturn ==
    /\ HasInstr
    /\ CurInstr.op = "Return"
    /\ Commit(DoReturn(Advance(Cur), CurInstr), CurInstr)
    /\ UNCHANGED runs

\* OpCode::ReturnNil
OpReturnNil ==
    /\ HasInstr
    /\ CurInstr.op = "ReturnNil"
    /\ Commit(DoReturnNil(Advance(Cur), CurInstr), CurInstr)
    /\ UNCHANGED runs

\* OpCode::SetGlobal
OpSetGlobal ==
    /\ HasInstr
    /\ CurInstr.op = "SetGlobal"
    /\ Commit(DoSetGlobal(Advance(Cur), CurInstr), CurInstr)
    /\ UNCHANGED runs

\* OpCode::SetProperty
OpSetProperty ==
    /\ HasInstr
    /\ CurInstr.op = "SetProperty"
    /\ Commit(DoSetProperty(Advance(Cur), CurInstr), CurInstr)
    /\ UNCHANGED runs

\* OpCode::SetUpvalue
OpSetUpvalue ==
    /\ HasInstr
    /\ CurInstr.op = "SetUpvalue"
    /\ Commit(DoSetUpvalue(Advance(Cur), CurInstr), CurInstr)
    /\ UNCHANGED runs

\* OpCode::SuperInvoke
OpSuperInvoke ==
    /\ HasInstr
    /\ CurInstr.op = "SuperInvoke"
    /\ Commit(DoSuperInvoke(Advance(Cur), CurInstr), CurInstr)
    /\ UNCHANGED runs

\* OpCode::True
OpTrue ==
    /\ HasInstr
    /\ CurInstr.op = "True"
    /\ Commit(DoTrue(Advance(Cur), CurInstr), CurInstr)
    /\ UNCHANGED runs

Next ==
    \/ Interpret
    \/ OpAdd \/ OpBuildList \/ OpCall \/ OpClass \/ OpCloseUpvalue \/ OpClosure
    \/ OpConstant \/ OpDefineGlobal \/ OpEqual \/ OpGetGlobal \/ OpGetIndexArray
    \/ OpGetLocal \/ OpGetProperty \/ OpGetUpvalue \/ OpInherit \/ OpInvoke
    \/ OpMethod \/ OpNil \/ OpPop \/ OpPrint \/ OpReturn \/ OpReturnNil
    \/ OpSetGlobal \/ OpSetProperty \/ OpSetUpvalue \/ OpTrue
    \/ OpFalse \/ OpJump \/ OpJumpIfFalse \/ OpLoop \/ OpRem \/ OpSuperInvoke
    \/ OpNegate \/ OpSetIndexArray \/ OpSetLocal

Spec == Init /\ [][Next]_vars

-----------------------------------------------------------------------------
(* The compiler alone: the parser meets declarations, blocks and names in   *)
(* any order.  The state is the Parser, last_op is what it met last, and of *)
(* the chunk and the history only what the last item added is kept.         *)

MaxDepth == 2       \* blocks open in one function
MaxLocals == 2      \* locals declared in one function, slot 0 apart
MaxNest == 3        \* compilers in the chain
MaxUpvalues == 2    \* upvalues of one function
Names == {"a", "b"}

NoVm ==
    /\ objects = << >> /\ free_slots = << >> /\ strings = EmptyTable
    /\ bytes_allocated = 0 /\ next_gc = 0 /\ grey_stack = << >> /\ stack = << >>
    /\ globals = EmptyTable /\ frames = << >> /\ open_upvalues = << >>
    /\ init_string = 0 /\ status = "idle" /\ message = "" /\ output = << >>
    /\ stress = FALSE /\ runs = 0 /\ gc_cycles = 0

VmUnchanged ==
    UNCHANGED <<objects, free_slots, strings, bytes_allocated, next_gc, grey_stack,
                stack, globals, frames, open_upvalues, init_string, status, message,
                output, stress, runs, gc_cycles>>

\* Parser::new, with the compiler of the script
CompilerInit ==
    /\ NoVm
    /\ parser = push_compiler(NewParser, "", "Script")
    /\ last_op = Ins("New")

\* No function of the chain has more upvalues than the bound.
HasRoom(p) == \A k \in 1..Len(p.compilers) :
                  Len(p.compilers[k].upvalues) <= MaxUpvalues

\* The parser before an item
Before ==
    [parser EXCEPT !.code = << >>, !.lines = << >>, !.log = << >>, !.marks = << >>]

\* The parser after the item s
Parsed(p, s) ==
    /\ parser' = p
    /\ last_op' = s
    /\ VmUnchanged
    /\ ~parser.had_error

\* `{` of Parser::statement
BeginScope ==
    /\ compiler_of(parser).scope_depth < MaxDepth
    /\ Parsed(begin_scope(Before), Ins("BeginScope"))

\* `}` of Parser::statement, for a block that is not the body of a function
EndScope ==
    /\ compiler_of(parser).scope_depth > (IF Len(parser.compilers) = 1 THEN 0 ELSE 1)
    /\ Parsed(end_scope(Before), Ins("EndScope"))

\* Parser::var_declaration without an initializer
VarDeclaration ==
    /\ Len(compiler_of(parser).locals) <= MaxLocals
    /\ \E name \in Names : \E s \in {VarDecl(name, 0, <<Ins("Nil")>>)} :
          Parsed(var_declaration(compiler_of(parser).function_type, Before, s), s)

\* Parser::variable
NamedVariable ==
    \E name \in Names : \E p \in {variable(Before, Variable(name, 0))} :
        /\ HasRoom(p)
        /\ Parsed(p, Variable(name, 0))

\* Parser::fun_declaration up to the body of the function
BeginFunction ==
    /\ Len(parser.compilers) < MaxNest
    /\ Len(compiler_of(parser).locals) <= MaxLocals
    /\ \E name \in {"f"} : \E s \in {FunDecl(name, 0, 0, << >>, << >>, << >>)} :
          Parsed(begin_function(mark_initialized(parse_variable(Before, name)), s), s)

\* Parser::fun_declaration from the end of the body of the function
PopFunction ==
    /\ Len(parser.compilers) > 1
    /\ compiler_of(parser).scope_depth = 1
    /\ \E s \in {FunDecl(compiler_of(parser).name, 0, 0, << >>, << >>, << >>)} :
          Parsed([define_variable(end_function(Before, s), 0) EXCEPT !.functions = << >>],
                 [s EXCEPT !.op = "PopFunction"])

CompilerNext ==
    \/ BeginScope \/ EndScope \/ VarDeclaration \/ NamedVariable \/ BeginFunction
    \/ PopFunction

CompilerSpec == CompilerInit /\ [][CompilerNext]_vars

-----------------------------------------------------------------------------
(* A chunk alone: instructions are written to it at any lines.  The state   *)
(* is the Chunk, in parser, and output is the line of each write (history). *)

MaxWrites == 5      \* instructions written
MaxLine == 3        \* lines of the source

\* Chunk::new
ChunkInit ==
    /\ NoVm
    /\ parser = [code |-> << >>, lines |-> << >>]
    /\ last_op = Ins("New")

\* Chunk::write
ChunkWrite ==
    /\ Len(parser.code) < MaxWrites
    /\ \E opcode \in {Ins("Nil"), Ins("Pop")} : \E line \in 1..MaxLine :
          /\ parser' = write(parser, opcode, line)
          /\ output' = Append(output, line)
          /\ last_op' = opcode
    /\ UNCHANGED <<objects, free_slots, strings, bytes_allocated, next_gc, grey_stack,
                   stack, globals, frames, open_upvalues, init_string, status, message,
                   stress, runs, gc_cycles>>

ChunkSpec == ChunkInit /\ [][ChunkWrite]_vars

-----------------------------------------------------------------------------
(* Properties *)

\* C1: when interpret has completed without error (the outermost frame has
\* executed RETURN or RETURN_NIL), the value stack is empty.
C1_StackEmptyAfterRun == status = "ok" => stack = << >>

\* C2: whenever interpret has returned a runtime error, the value stack and the
\* frame stack are both empty, so that the next interpret starts without frames
\* left over.
C2_ErrorLeavesNoFrames == status = "runtime_error" => stack = << >> /\ frames = << >>

\* The handle a value holds, for every variant that holds one (arrays included).
HandleOf(v) ==
    IF v.t \in {"VString", "Function", "Closure", "Class", "Instance", "BoundMethod", "Array"}
    THEN {v.v} ELSE {}

HandlesOf(vs) == UNION {HandleOf(vs[k]) : k \in 1..Len(vs)}

TableHandles(tbl) == (DOMAIN tbl) \cup UNION {HandleOf(tbl[k]) : k \in DOMAIN tbl}

\* The handles held in the fields of an object.
FieldHandles(o) ==
    CASE o.kind = "String" -> {}
      [] o.kind = "Function" -> {o.name} \cup HandlesOf(o.constants)
      [] o.kind = "Upvalue" -> HandleOf(o.closed)
      [] o.kind = "Closure" -> {o.function} \cup {o.upvalues[k] : k \in 1..Len(o.upvalues)}
      [] o.kind = "Class" -> {o.name} \cup TableHandles(o.methods)
      [] o.kind = "Instance" -> {o.class} \cup TableHandles(o.fields)
      [] o.kind = "BoundMethod" -> HandleOf(o.receiver) \cup {o.method}
      [] o.kind = "Array" -> HandlesOf(o.elems)

\* The roots: the stack, the closures of the frames, the open upvalues, the
\* keys and values of the globals, the init string.
Roots ==
    HandlesOf(stack)
    \cup {frames[k].closure : k \in 1..Len(frames)}
    \cup {open_upvalues[k] : k \in 1..Len(open_upvalues)}
    \cup TableHandles(globals)
    \cup {init_string}

RECURSIVE ReachableFrom(_)
ReachableFrom(hs) ==
    LET more == hs \cup UNION {FieldHandles(Obj(Cur, h)) : h \in {x \in hs : Live(Cur, x)}}
    IN IF more = hs THEN hs ELSE ReachableFrom(more)

Reachable == ReachableFrom(Roots)

\* C3: once a collection has run, every object reachable from a root through
\* the fields of objects is still allocated, whatever the variant of the values
\* on the way (arrays on the stack, in globals, in fields, and their elements).
C3_ReachableStaysAllocated == gc_cycles > 0 => \A h \in Reachable : Live(Cur, h)

\* The panics of Gc::deref and Gc::mark_object on a handle whose object was
\* freed (its slot empty, or taken by an object of another type since).
FreedHandleUsed ==
    /\ status = "panic"
    /\ message \in {"Reference already freed", "Reference not found",
                    "Marking an already disposed value"}

\* C4: with a collection at every allocation, no execution dereferences a freed
\* handle.
C4_StressNeverDerefsFreed == stress => ~FreedHandleUsed

\* C5: two string values at run time have equal contents exactly when they are
\* the same handle.
C5_EqualStringsSameHandle ==
    \A j, k \in 1..Len(stack) :
        (/\ stack[j].t = "VString" /\ IsA(Cur, stack[j].v, "String")
         /\ stack[k].t = "VString" /\ IsA(Cur, stack[k].v, "String"))
        => ((Obj(Cur, stack[j].v).s = Obj(Cur, stack[k].v).s) <=> (stack[j].v = stack[k].v))

\* The dispatch loop is about to execute an instruction of opcode op.
AtOp(op) == HasInstr /\ CurInstr.op = op

\* The callee of the CALL about to execute is a closure.
CallOnClosure ==
    /\ AtOp("Call")
    /\ Len(stack) > CurInstr.a
    /\ peek(Cur, CurInstr.a).t = "Closure"
    /\ IsA(Cur, peek(Cur, CurInstr.a).v, "Closure")
    /\ IsA(Cur, Obj(Cur, peek(Cur, CurInstr.a).v).function, "Function")

CalleeArity == Obj(Cur, Obj(Cur, peek(Cur, CurInstr.a).v).function).arity

\* C6: CALL with argc arguments on a closure of arity n pushes a frame, of slot
\* (stack length - argc - 1) and ip 0, exactly when argc = n; otherwise it
\* pushes none and raises the runtime error whose message names n and argc.
C6_CallChecksArity ==
    [][(CallOnClosure /\ OpCall) =>
          IF CurInstr.a = CalleeArity
          THEN /\ status' = "running"
               /\ Len(frames') = Len(frames) + 1
               /\ Last(frames') = [closure |-> peek(Cur, CurInstr.a).v, ip |-> 0,
                                   slot |-> Len(stack) - CurInstr.a - 1]
          ELSE /\ status' = "runtime_error"
               /\ Len(frames') = Len(frames)
               /\ message' = "Expected " \o NumText(CalleeArity)
                             \o " arguments but got " \o NumText(CurInstr.a) \o "."]_vars

\* A call with the right number of arguments has returned and printed its
\* result, and a call with too few has raised the error.
C6_Witness ==
    /\ status = "runtime_error"
    /\ last_op.op = "Call"
    /\ message = "Expected 1 arguments but got 0."
    /\ output = <<"1">>

Closures == {h \in 0..(Len(objects) - 1) : IsA(Cur, h, "Closure")}

\* The upvalue cells held by closures.
HeldCells == UNION {{Obj(Cur, c).upvalues[k] : k \in 1..Len(Obj(Cur, c).upvalues)} : c \in Closures}

OpenCell(h) == IsA(Cur, h, "Upvalue") /\ Obj(Cur, h).closed.t = "None"
ClosedCell(h) == IsA(Cur, h, "Upvalue") /\ Obj(Cur, h).closed.t # "None"

\* The value read through a cell.
CellValue(h) == UpvalueRead(Cur, h)

\* The cell the instruction about to execute names, when it can be read.
CellAtOp(op) ==
    /\ AtOp(op)
    /\ CurInstr.a < Len(current_closure(Cur).upvalues)
    /\ IsA(Cur, At(current_closure(Cur).upvalues, CurInstr.a), "Upvalue")
    /\ UpvalueReadable(Cur, At(current_closure(Cur).upvalues, CurInstr.a))

\* Two closures that captured the local in one stack slot hold one cell.
OneCellPerSlot ==
    \A a, b \in HeldCells :
        (OpenCell(a) /\ OpenCell(b) /\ Obj(Cur, a).location = Obj(Cur, b).location) => a = b

\* SET_UPVALUE writes the value on top of the stack to the cell, so that it is
\* what is read through any closure holding the cell.
SetUpvalueWritesCell ==
    (CellAtOp("SetUpvalue") /\ stack # << >> /\ OpSetUpvalue) =>
        \E cell \in {At(current_closure(Cur).upvalues, CurInstr.a)} :
            CellValue(cell)' = peek(Cur, 0)

\* GET_UPVALUE pushes the value of the cell.
GetUpvalueReadsCell ==
    (CellAtOp("GetUpvalue") /\ OpGetUpvalue) =>
        \E cell \in {At(current_closure(Cur).upvalues, CurInstr.a)} :
            stack' = Append(stack, CellValue(cell))

\* A cell that is closed keeps the value its variable had on the stack.
ClosingKeepsValue ==
    \A h \in HeldCells :
        (OpenCell(h) /\ Obj(Cur, h).location < Len(stack) /\ ClosedCell(h)') =>
            CellValue(h)' = CellValue(h)

\* C7: two closures capturing the same local variable of one activation hold
\* the same upvalue cell, and what SET_UPVALUE writes through one GET_UPVALUE
\* reads through the other, while the variable is on the stack and after it is
\* closed.
C7_SharedUpvalueCell ==
    /\ []OneCellPerSlot
    /\ [][SetUpvalueWritesCell /\ GetUpvalueReadsCell /\ ClosingKeepsValue]_vars

\* Two closures hold one closed cell; the value written through one was read
\* through the other before the cell was closed (2) and after (3).
C7_Witness ==
    /\ output = <<"2", "3">>
    /\ \E a, b \in Closures :
          /\ a # b
          /\ Obj(Cur, a).upvalues # << >>
          /\ Obj(Cur, a).upvalues = Obj(Cur, b).upvalues
          /\ ClosedCell(Obj(Cur, a).upvalues[1])
          /\ CellValue(Obj(Cur, a).upvalues[1]) = Number(3)

\* The instruction about to execute names a global that is not defined.
AtUndefinedGlobal(op) ==
    /\ AtOp(op)
    /\ Const(Cur, CurInstr.a).t = "VString"
    /\ Const(Cur, CurInstr.a).v \notin DOMAIN globals

\* C8: SET_GLOBAL on a name that is not defined raises a runtime error and
\* leaves the globals as they were; GET_GLOBAL on such a name raises a runtime
\* error; DEFINE_GLOBAL inserts or overwrites the binding and pops the value.
C8_GlobalsDefinedBeforeSet ==
    [][/\ (AtUndefinedGlobal("SetGlobal") /\ stack # << >> /\ OpSetGlobal) =>
              (status' = "runtime_error" /\ globals' = globals)
       /\ (AtUndefinedGlobal("GetGlobal") /\ OpGetGlobal) => status' = "runtime_error"
       /\ (AtOp("DefineGlobal") /\ Const(Cur, CurInstr.a).t = "VString" /\ stack # << >>
           /\ OpDefineGlobal) =>
              /\ globals' = [k \in (DOMAIN globals) \cup {Const(Cur, CurInstr.a).v} |->
                                IF k = Const(Cur, CurInstr.a).v THEN Last(stack)
                                ELSE globals[k]]
              /\ stack' = Front(stack)]_vars

\* An assignment to the undefined x has raised the error, and x is not defined.
C8_Witness ==
    /\ status = "runtime_error"
    /\ last_op.op = "SetGlobal"
    /\ message = "Undefined variable 'x'."
    /\ \A k \in DOMAIN globals : Obj(Cur, k).s # "x"

MethodsOf(class) == Obj(Cur, class).methods

\* The receiver of the INVOKE about to execute is an instance without a field
\* of the name, and the name is not copy, which Vm::invoke answers with the
\* built-in before it looks anything up.
InvokeOnInstance ==
    /\ AtOp("Invoke")
    /\ Const(Cur, CurInstr.a).t = "VString"
    /\ IsA(Cur, Const(Cur, CurInstr.a).v, "String")
    /\ Obj(Cur, Const(Cur, CurInstr.a).v).s # "copy"
    /\ Len(stack) > CurInstr.b
    /\ peek(Cur, CurInstr.b).t = "Instance"
    /\ IsA(Cur, peek(Cur, CurInstr.b).v, "Instance")
    /\ Const(Cur, CurInstr.a).v \notin DOMAIN Obj(Cur, peek(Cur, CurInstr.b).v).fields
    /\ IsA(Cur, Obj(Cur, peek(Cur, CurInstr.b).v).class, "Class")

\* INHERIT gives the subclass the superclass's table as it is then.
InheritCopiesTable ==
    (AtOp("Inherit") /\ Len(stack) >= 2
     /\ peek(Cur, 0).t = "Class" /\ IsA(Cur, peek(Cur, 0).v, "Class")
     /\ peek(Cur, 1).t = "Class" /\ IsA(Cur, peek(Cur, 1).v, "Class")
     /\ OpInherit) =>
        \E class \in {peek(Cur, 0).v} :
            MethodsOf(class)' = MethodsOf(peek(Cur, 1).v)

\* METHOD puts the method under its name in the class's table; the other
\* names keep their method.
MethodOverrides ==
    (AtOp("Method") /\ Const(Cur, CurInstr.a).t = "VString" /\ Len(stack) >= 2
     /\ peek(Cur, 1).t = "Class" /\ IsA(Cur, peek(Cur, 1).v, "Class")
     /\ OpMethod) =>
        \E class \in {peek(Cur, 1).v} :
            MethodsOf(class)' =
                [k \in (DOMAIN MethodsOf(class)) \cup {Const(Cur, CurInstr.a).v} |->
                    IF k = Const(Cur, CurInstr.a).v THEN peek(Cur, 0)
                    ELSE MethodsOf(class)[k]]

\* INVOKE finds the method in the table of the instance's class and nowhere else.
InvokeLooksInOwnTable ==
    (InvokeOnInstance /\ OpInvoke) =>
        \E name \in {Const(Cur, CurInstr.a).v} :
        \E methods \in {MethodsOf(Obj(Cur, peek(Cur, CurInstr.b).v).class)} :
            IF name \in DOMAIN methods
            THEN status' = "running" =>
                    /\ Len(frames') = Len(frames) + 1
                    /\ ClosureV(Last(frames').closure) = methods[name]
            ELSE Obj(Cur, name).s # "toString" => status' = "runtime_error"

\* C9: the method table of a subclass maps each name to the subclass's own
\* method if it declares one, else to the method the superclass had at INHERIT;
\* a method is looked up in the class's own table only.
C9_InheritedMethodsCopied ==
    [][InheritCopiesTable /\ MethodOverrides /\ InvokeLooksInOwnTable]_vars

\* An inherited method (1) and an overriding one (3) have been invoked, and a
\* name in no table has raised the error.
C9_Witness ==
    /\ output = <<"1", "3">>
    /\ status = "runtime_error"
    /\ message = "Undefined property 'k'."

\* The current frame runs the init method of the class of the instance in its
\* first slot.
InInitializer ==
    /\ Len(frames) > 1
    /\ current_frame(Cur).slot < Len(stack)
    /\ At(stack, current_frame(Cur).slot).t = "Instance"
    /\ IsA(Cur, At(stack, current_frame(Cur).slot).v, "Instance")
    /\ IsA(Cur, Obj(Cur, At(stack, current_frame(Cur).slot).v).class, "Class")
    /\ \E methods \in {MethodsOf(Obj(Cur, At(stack, current_frame(Cur).slot).v).class)} :
          /\ init_string \in DOMAIN methods
          /\ methods[init_string] = ClosureV(current_frame(Cur).closure)

\* The return from an initializer leaves the instance where the class was
\* called.
InitializerYieldsInstance ==
    (HasInstr /\ InInitializer /\ (OpReturn \/ OpReturnNil) /\ status' = "running") =>
        stack' = Append(Take(stack, current_frame(Cur).slot),
                        At(stack, current_frame(Cur).slot))

ReturnsValueInInitializer(program) ==
    \E k \in 1..Len(program) :
        /\ program[k].ftype = "Initializer"
        /\ \E j \in 1..Len(program[k].body) : program[k].body[j].op = "ReturnValueStmt"

\* A program with `return e;` in an initializer is not run.
InitializerValueRejected ==
    (runs' = runs + 1 /\ ReturnsValueInInitializer(Programs[last_op'.a])) =>
        status' = "compile_error"

\* C10: the call of a class whose init takes the arguments given yields the new
\* instance, whether init runs to its end or executes `return;`; `return e;` in
\* an initializer is a compile error.
C10_InitializerReturnsInstance ==
    [][InitializerYieldsInstance /\ InitializerValueRejected]_vars

\* Both initializers have returned (P's at its end, Q's by `return;`) and the
\* instances were used; then the program returning a value was rejected.
C10_Witness ==
    /\ output = <<"7", "Q instance">>
    /\ status = "compile_error"

\* The positions of the open-upvalue list that hold a cell for stack index n.
OpenAt(n) ==
    {k \in 1..Len(open_upvalues) :
        IsA(Cur, open_upvalues[k], "Upvalue") /\ Obj(Cur, open_upvalues[k]).location = n}

\* The open-upvalue list holds at most one cell per stack index.
OneOpenCellPerIndex ==
    \A j, k \in 1..Len(open_upvalues) :
        (j \in OpenAt(Obj(Cur, open_upvalues[k]).location) /\ k \in OpenAt(Obj(Cur, open_upvalues[k]).location))
            => j = k

\* The upvalue descriptors of the function the CLOSURE about to execute names.
ClosureDescs == Obj(Cur, Const(Cur, CurInstr.a).v).upvalues

\* CLOSURE is about to capture locals of the current frame.
AtCapture ==
    /\ AtOp("Closure")
    /\ Const(Cur, CurInstr.a).t = "Function"
    /\ IsA(Cur, Const(Cur, CurInstr.a).v, "Function")

\* A capture of an index that has a cell in the list yields that cell.
CaptureReturnsOpenCell ==
    (AtCapture /\ OpClosure /\ status' = "running") =>
        \A d \in 1..Len(ClosureDescs) :
            ClosureDescs[d].is_local =>
                \A k \in OpenAt(current_frame(Cur).slot + ClosureDescs[d].index) :
                    (Obj(Cur, peek(Cur, 0).v).upvalues)'[d] = open_upvalues[k]

\* C11: the open-upvalue list holds at most one cell per stack index, and a
\* capture of an index that already has an open cell returns that cell.
C11_OneOpenCellPerIndex ==
    /\ []OneOpenCellPerIndex
    /\ [][CaptureReturnsOpenCell]_vars

\* CLOSURE has just captured an index whose cell was already in the list: the
\* list has one cell, held by two closures.
C11_Witness ==
    /\ last_op.op = "Closure"
    /\ status = "running"
    /\ Len(open_upvalues) = 1
    /\ \E a, b \in Closures :
          /\ a # b
          /\ Obj(Cur, a).upvalues = <<open_upvalues[1]>>
          /\ Obj(Cur, b).upvalues = <<open_upvalues[1]>>
          /\ OpenCell(open_upvalues[1])

\* C12: after any sequence of interpret calls, those ending in a runtime error
\* included, every cell in the open-upvalue list has a location below the
\* length of the value stack.
C12_OpenCellsWithinStack ==
    \A k \in 1..Len(open_upvalues) :
        IsA(Cur, open_upvalues[k], "Upvalue") =>
            Obj(Cur, open_upvalues[k]).location < Len(stack)

\* The closed cells held by closures that are reachable from the roots.
LiveClosedCells ==
    {h \in UNION {{Obj(Cur, c).upvalues[k] : k \in 1..Len(Obj(Cur, c).upvalues)} :
                     c \in Closures \cap Reachable} : ClosedCell(h)}

\* The open cells of the list at stack index n.
OpenCellsAt(n) == {open_upvalues[k] : k \in {j \in OpenAt(n) : OpenCell(open_upvalues[j])}}

\* C13: for every closed upvalue held by a reachable closure, no open upvalue
\* in the open-upvalue list has the stack index that was the closed cell's
\* location.
C13_ClosedIndexNotReopened ==
    \A h \in LiveClosedCells : OpenCellsAt(Obj(Cur, h).location) = {}

\* No cell in the open-upvalue list is closed.
ListHoldsOpenCells ==
    \A k \in 1..Len(open_upvalues) : ~ClosedCell(open_upvalues[k])

\* The cells CLOSURE captures from the current frame are open, whatever cells
\* were closed at their indices before.
CaptureYieldsOpenCell ==
    (AtCapture /\ OpClosure /\ status' = "running") =>
        \A d \in 1..Len(ClosureDescs) :
            ClosureDescs[d].is_local =>
                \E cell \in {(Obj(Cur, peek(Cur, 0).v).upvalues)'[d]} : OpenCell(cell)'

\* C13 as the code has it: a cell that is closed leaves the open-upvalue list,
\* so the list holds no closed cell, and a later capture of the stack index a
\* closed cell had yields an open cell, which may share that index with the
\* closed cell while both are held by reachable closures.
C13_ClosedCellsLeaveList ==
    /\ []ListHoldsOpenCells
    /\ [][CaptureYieldsOpenCell]_vars

\* CLOSURE has just captured a local at the index a closed cell had: the closed
\* cell is held by a reachable closure and the list holds an open cell of the
\* same index.
C13_Witness ==
    /\ last_op.op = "Closure"
    /\ status = "running"
    /\ \E h \in LiveClosedCells : OpenCellsAt(Obj(Cur, h).location) # {}

Functions == {h \in 0..(Len(objects) - 1) : IsA(Cur, h, "Function")}

\* In every function the compiler allocated, a jump lands inside the code and
\* a loop lands at or after its first instruction.
JumpsInRange ==
    \A h \in Functions : \A p \in 0..(Len(Obj(Cur, h).code) - 1) :
        \E ins \in {At(Obj(Cur, h).code, p)} :
            /\ ins.op \in {"Jump", "JumpIfFalse"} => p + 1 + ins.a < Len(Obj(Cur, h).code)
            /\ ins.op = "Loop" => (0 <= p - ins.a /\ p - ins.a <= p)

\* In every function of the programs that compiles without error, the operand
\* of a LOOP leads from its index to the loop start the compiler recorded for
\* it.
LoopsReachStart ==
    \A n \in 1..Len(Programs) : \A k \in 1..Len(Programs[n]) :
        \E c \in {CompileBody(Programs[n][k].ftype, Programs[n][k].body)} :
            ~c.had_error =>
                \A p \in 0..(Len(c.code) - 1) :
                    At(c.code, p).op = "Loop" =>
                        [at |-> p, start |-> p - At(c.code, p).a] \in c.loops

\* The ip of the running frame.
Ip == current_frame(Cur).ip

\* The dispatch loop takes the ip where the operand says: past the instruction
\* and on by the operand for a jump that is taken, back to the index minus the
\* operand for a loop.
JumpsLand ==
    /\ (AtOp("Jump") /\ OpJump) => Ip' = Ip + 1 + CurInstr.a
    /\ (AtOp("JumpIfFalse") /\ stack # << >> /\ OpJumpIfFalse) =>
          Ip' = IF is_false(peek(Cur, 0)) THEN Ip + 1 + CurInstr.a ELSE Ip + 1
    /\ (AtOp("Loop") /\ OpLoop) => (status' = "running" /\ Ip' = Ip - CurInstr.a)

\* C14: in every function compiled without error, JUMP and JUMP_IF_FALSE at
\* index p with operand o have p + 1 + o below the code length, LOOP at index p
\* with operand o has 0 <= p - o <= p with p - o the loop start the compiler
\* recorded, and the ip arithmetic of the VM lands on those targets.
C14_JumpTargetsInCode ==
    /\ [](JumpsInRange /\ LoopsReachStart)
    /\ [][JumpsLand]_vars

\* LOOP has just taken the ip back to the start recorded for the `for` loop,
\* after the while loop ended and the else branch was taken.
C14_Witness ==
    /\ last_op.op = "Loop"
    /\ status = "running"
    /\ output = <<"2", "3">>
    /\ \E l \in CompileBody("Script", ProgJumps[1].body).loops :
          Ip = l.start /\ last_op.a = l.at - l.start

\* The step puts an object into a slot of the heap that was empty or is new.
Allocates == Len(objects') > Len(objects) \/ Len(free_slots') < Len(free_slots)

\* A collection ran during the step.
Collects == gc_cycles' > gc_cycles

\* An instruction that allocates has run the collection check, which collects
\* exactly when Gc::should_gc says so.
AllocationIsChecked == (HasInstr /\ Allocates) => (Collects <=> should_gc(Cur))

\* A collection leaves next_gc at twice the bytes allocated.
CollectionSetsThreshold ==
    \E after \in {gc_collect_garbage(mark_roots(Cur))} :
        after.status # "panic" => after.next_gc = 2 * after.bytes_allocated

\* C15: every heap allocation the VM makes during dispatch is preceded by the
\* collection check; the check collects iff bytes_allocated > next_gc (always,
\* under debug_gc_stress); next_gc starts at 1 MiB and is twice bytes_allocated
\* right after every collection.
C15_AllocationsAreChecked ==
    /\ [](gc_cycles = 0 => next_gc = 1048576)
    /\ []CollectionSetsThreshold
    /\ [][AllocationIsChecked]_vars

\* REM is about to execute on two numbers.
RemOnNumbers ==
    /\ AtOp("Rem")
    /\ Len(stack) >= 2
    /\ peek(Cur, 0).t = "Number"
    /\ peek(Cur, 1).t = "Number"

\* C16: REM consumes two values, and for every pair of numbers either pushes
\* exactly one number (the integer remainder, for integer operands) or ends in
\* a runtime error; no pair of operands (a zero divisor, a negative operand)
\* aborts the process or leaves the stack two shorter with nothing pushed.
C16_RemPushesOrErrors ==
    [][(RemOnNumbers /\ OpRem) =>
          \/ status' = "runtime_error"
          \/ /\ status' = "running"
             /\ Len(stack') = Len(stack) - 1
             /\ stack'[Len(stack')].t = "Number"
             /\ (peek(Cur, 1).v >= 0 /\ peek(Cur, 0).v > 0) =>
                   stack'[Len(stack')] = Number(peek(Cur, 1).v % peek(Cur, 0).v)]_vars

\* PRINT is about to execute on a string.
PrintOnString ==
    /\ AtOp("Print")
    /\ stack # << >>
    /\ peek(Cur, 0).t = "VString"
    /\ IsA(Cur, peek(Cur, 0).v, "String")

\* C17: PRINT of a string writes its text with no quotes around it (`print
\* "n=" + 3;` writes n=3), and PRINT takes exactly one value off the stack.
C17_PrintWritesBareText ==
    [][/\ (PrintOnString /\ OpPrint) => output' = Append(output, Obj(Cur, peek(Cur, 0).v).s)
       /\ (AtOp("Print") /\ stack # << >> /\ OpPrint /\ status' = "running") =>
              stack' = Front(stack)]_vars

\* ADD is about to execute on two operands: the left one under the right one.
AtAdd == AtOp("Add") /\ Len(stack) >= 2
AddLeft == peek(Cur, 1)
AddRight == peek(Cur, 0)
AddRest == Take(stack, Len(stack) - 2)

\* An operand of a concatenation: a number, or a string that is in the heap.
Textual(v) == v.t = "Number" \/ (v.t = "VString" /\ IsA(Cur, v.v, "String"))
TextOf(v) == IF v.t = "Number" THEN NumText(v.v) ELSE Obj(Cur, v.v).s

\* ADD has left the stack one shorter, with a value of type t on top.
AddPushed(t) ==
    /\ status' = "running"
    /\ Len(stack') = Len(stack) - 1
    /\ Front(stack') = AddRest
    /\ Last(stack').t = t

AddOfNumbers ==
    (AddLeft.t = "Number" /\ AddRight.t = "Number") =>
        AddPushed("Number") /\ Last(stack').v = AddLeft.v + AddRight.v

AddOfTexts ==
    (Textual(AddLeft) /\ Textual(AddRight) /\ "VString" \in {AddLeft.t, AddRight.t}) =>
        /\ AddPushed("VString")
        /\ Last(stack').v < Len(objects')
        /\ At(objects', Last(stack').v).live
        /\ At(objects', Last(stack').v).object = StringObj(TextOf(AddLeft) \o TextOf(AddRight))

\* What stays reachable once ADD has popped its operands.
AddKept ==
    ReachableFrom(HandlesOf(AddRest)
                  \cup {frames[k].closure : k \in 1..Len(frames)}
                  \cup {open_upvalues[k] : k \in 1..Len(open_upvalues)}
                  \cup TableHandles(globals)
                  \cup {init_string})

\* The array ADD pushes is in a slot that nothing else refers to, and an
\* operand that something else refers to is still the array it was.
AddOfArrays ==
    (/\ AddLeft.t = "Array" /\ IsA(Cur, AddLeft.v, "Array")
     /\ AddRight.t = "Array" /\ IsA(Cur, AddRight.v, "Array")) =>
        /\ AddPushed("Array")
        /\ Last(stack').v \notin AddKept
        /\ Last(stack').v < Len(objects')
        /\ At(objects', Last(stack').v).live
        /\ At(objects', Last(stack').v).object =
               ArrayObj(Obj(Cur, AddLeft.v).elems \o Obj(Cur, AddRight.v).elems)
        /\ \A v \in {AddLeft, AddRight} :
               v.v \in AddKept =>
                   /\ At(objects', v.v).live
                   /\ At(objects', v.v).object = Obj(Cur, v.v)

AddOfOthers ==
    (/\ ~(AddLeft.t = "Number" /\ AddRight.t = "Number")
     /\ ~({AddLeft.t, AddRight.t} \subseteq {"Number", "VString"})
     /\ ~(AddLeft.t = "Array" /\ AddRight.t = "Array")) =>
        status' = "runtime_error"

\* C18: ADD pops two values and pushes one: the sum of two numbers; the
\* concatenation, left operand first, of two strings or of a string and a
\* number in its textual form; for two arrays a newly allocated array of the
\* left elements followed by the right ones, both operands left unchanged;
\* any other pair of operands is a runtime error.
C18_AddSemantics ==
    [][(AtAdd /\ OpAdd) =>
           (AddOfNumbers /\ AddOfTexts /\ AddOfArrays /\ AddOfOthers)]_vars

\* The positions of the log of the last compile with an event of kind ev.
LogAt(ev) == {k \in 1..Len(parser.log) : parser.log[k].ev = ev}

\* Between two reported diagnostics synchronize has run.
DiagnosticsSuppressed ==
    \A i \in LogAt("error") : \A j \in LogAt("error") :
        i < j => \E k \in LogAt("synchronize") : i < k /\ k < j

\* synchronize runs after a diagnostic only, and stops after a semicolon, before
\* a keyword that starts a statement, or at the end of the source.
SynchronizeStops ==
    \A k \in LogAt("synchronize") :
        /\ \E i \in LogAt("error") : i < k
        /\ \E r \in LogAt("resume") :
              /\ k < r
              /\ \A j \in (k + 1)..(r - 1) : parser.log[j].ev = "error"
              /\ \/ parser.log[r].previous = "Semicolon"
                 \/ parser.log[r].current \in StatementStart \cup {"Eof"}

\* had_error is set by the first diagnostic and stays set.
HadErrorStays ==
    /\ \A k \in 1..Len(parser.log) :
          parser.log[k].had_error <=> (\E i \in LogAt("error") : i <= k)
    /\ parser.had_error <=> LogAt("error") # {}

\* Vm::interpret returns the compile error exactly when the compile reported.
CompileErrorIffReported ==
    (Interpret /\ status' # "panic") =>
        (status' = "compile_error" <=> (LogAt("error") # {})')

\* C19: once a compile error is reported, no further diagnostic is reported
\* until synchronize has run, which stops after a semicolon, before a
\* statement-start keyword or at the end of the source; had_error, once set, is
\* never cleared; and compile returns the compile error if and only if at
\* least one diagnostic was reported.
C19_DiagnosticsUntilSynchronize ==
    /\ [](DiagnosticsSuppressed /\ SynchronizeStops /\ HadErrorStays)
    /\ [][CompileErrorIffReported]_vars

\* A compile has reported two diagnostics, with synchronize between them, and
\* has returned the compile error: `var 1; print 2 +;`
C19_Witness ==
    /\ status = "compile_error"
    /\ Len(parser.log) = 6
    /\ LogAt("error") = {1, 4}
    /\ LogAt("synchronize") = {2, 5}
    /\ parser.log[3].previous = "Semicolon" /\ parser.log[3].current = "Print"
    /\ parser.log[6].current = "Eof"

\* RETURN or RETURN_NIL is about to execute in a frame that is not the
\* outermost one.
AtInnerReturn ==
    /\ AtOp("Return") \/ AtOp("ReturnNil")
    /\ Len(frames) > 1
    /\ CurInstr.op = "Return" => stack # << >>
ReturnSlot == current_frame(Cur).slot
ReturnResult == IF CurInstr.op = "Return" THEN peek(Cur, 0) ELSE Nil

\* The cells of the open-upvalue list at or above the frame's base slot.
CellsOfFrame ==
    {open_upvalues[k] : k \in {j \in 1..Len(open_upvalues) :
                                   /\ IsA(Cur, open_upvalues[j], "Upvalue")
                                   /\ Obj(Cur, open_upvalues[j]).location >= ReturnSlot}}

ReturnLeaves ==
    /\ status' = "running"
    /\ frames' = Front(frames)
    /\ \A k \in 1..Len(open_upvalues') :
          \E cell \in {open_upvalues'[k]} :
              /\ cell < Len(objects')
              /\ At(objects', cell).live
              /\ At(objects', cell).object.kind = "Upvalue"
              /\ At(objects', cell).object.location < ReturnSlot
    /\ \A h \in CellsOfFrame :
          /\ Obj(Cur, h).location < Len(stack)
          /\ At(objects', h).object.closed = At(stack, Obj(Cur, h).location)
    /\ Len(stack') = ReturnSlot + 1
    /\ Front(stack') = Take(stack, ReturnSlot)
    /\ Last(stack') = ReturnResult

\* C20: RETURN (and RETURN_NIL, with nil as the result) executed in a frame
\* with base slot s that is not the outermost frame leaves the frame stack one
\* shorter, no open upvalue with location >= s (each such cell closed with the
\* value its slot held at that moment), the value stack of length exactly
\* s + 1, and the result on top.
C20_ReturnUnwindsFrame ==
    [][(AtInnerReturn /\ (OpReturn \/ OpReturnNil)) => ReturnLeaves]_vars

\* CALL is about to execute on a class.
CallOnClass ==
    /\ AtOp("Call")
    /\ Len(stack) > CurInstr.a
    /\ peek(Cur, CurInstr.a).t = "Class"
    /\ IsA(Cur, peek(Cur, CurInstr.a).v, "Class")
CalledClass == Obj(Cur, peek(Cur, CurInstr.a).v)
CalleeIndex == Len(stack) - CurInstr.a

\* The class has an init method, a closure.
HasInit ==
    /\ init_string \in DOMAIN CalledClass.methods
    /\ CalledClass.methods[init_string].t = "Closure"
    /\ IsA(Cur, CalledClass.methods[init_string].v, "Closure")
InitArity == Obj(Cur, Obj(Cur, CalledClass.methods[init_string].v).function).arity

\* The callee's slot holds an instance of the called class made by this call,
\* in a slot that was empty when Vm::alloc had run its collection, with no
\* fields; the rest of the stack is as it was.
InstancePlaced ==
    /\ Len(stack') = Len(stack)
    /\ \A k \in 1..Len(stack) : k # CalleeIndex => stack'[k] = stack[k]
    /\ stack'[CalleeIndex].t = "Instance"
    /\ \E c \in {collect_garbage(Cur)} : ~Live(c, stack'[CalleeIndex].v)
    /\ stack'[CalleeIndex].v < Len(objects')
    /\ At(objects', stack'[CalleeIndex].v).live
    /\ At(objects', stack'[CalleeIndex].v).object = InstanceObj(peek(Cur, CurInstr.a).v)

CallConstructs ==
    (CallOnClass /\ OpCall) =>
        IF HasInit
        THEN IF InitArity = CurInstr.a
             THEN /\ status' = "running"
                  /\ InstancePlaced
                  /\ Len(frames') = Len(frames) + 1
                  /\ Last(frames') = CallFrame(CalledClass.methods[init_string].v,
                                               CalleeIndex - 1)
             ELSE /\ status' = "runtime_error"
                  /\ message' = ArityMessage(InitArity, CurInstr.a)
        ELSE IF init_string \in DOMAIN CalledClass.methods
        THEN status' = "runtime_error"
        ELSE IF CurInstr.a = 0
        THEN status' = "running" /\ InstancePlaced /\ Len(frames') = Len(frames)
        ELSE status' = "runtime_error" /\ message' = ArityMessage(0, CurInstr.a)

\* C21: CALL(argc) on a class overwrites the callee slot with a new instance of
\* that class with an empty field table; if the class has an init method it is
\* called with argc arguments (subject to the arity check), and if it has none
\* the call succeeds only when argc = 0 and otherwise returns a runtime error.
C21_ClassCallConstructs == [][CallConstructs]_vars

\* CALL on a class has just put the new instance in the callee's slot and
\* pushed the frame of the class's init method on it.
C21_Witness ==
    /\ status = "running"
    /\ last_op.op = "Call"
    /\ Len(frames) > 1
    /\ current_frame(Cur).ip = 0
    /\ current_frame(Cur).slot < Len(stack)
    /\ Obj(Cur, current_function(Cur).name).s = "init"
    /\ At(stack, current_frame(Cur).slot).t = "Instance"
    /\ Obj(Cur, At(stack, current_frame(Cur).slot).v).fields = EmptyTable
    /\ last_op.a = 1

\* The operation about to execute calls a method or initializer: CALL on a
\* class or on a bound method, INVOKE on an instance whose field of that name is
\* a bound method or which has no such field, or SUPER_INVOKE.
InvokeField ==
    IF /\ AtOp("Invoke")
       /\ Len(stack) > CurInstr.b
       /\ peek(Cur, CurInstr.b).t = "Instance"
       /\ IsA(Cur, peek(Cur, CurInstr.b).v, "Instance")
       /\ Const(Cur, CurInstr.a).t = "VString"
       /\ Const(Cur, CurInstr.a).v \in DOMAIN Obj(Cur, peek(Cur, CurInstr.b).v).fields
    THEN Obj(Cur, peek(Cur, CurInstr.b).v).fields[Const(Cur, CurInstr.a).v]
    ELSE NoneV
CallOnBoundMethod ==
    /\ AtOp("Call")
    /\ Len(stack) > CurInstr.a
    /\ peek(Cur, CurInstr.a).t = "BoundMethod"
    /\ IsA(Cur, peek(Cur, CurInstr.a).v, "BoundMethod")
InvokeOnBoundField ==
    /\ InvokeField.t = "BoundMethod"
    /\ IsA(Cur, InvokeField.v, "BoundMethod")
InvokeOnMethod ==
    /\ AtOp("Invoke")
    /\ Len(stack) > CurInstr.b
    /\ peek(Cur, CurInstr.b).t = "Instance"
    /\ InvokeField = NoneV
AtSuperInvoke ==
    /\ AtOp("SuperInvoke")
    /\ Len(stack) > CurInstr.b + 1

\* The step pushes a frame whose slot 0 holds the receiver of the call.
ReceiverPlaced ==
    /\ CallOnClass /\ OpCall /\ Len(frames') > Len(frames) =>
          /\ At(stack', Last(frames').slot).t = "Instance"
          /\ At(stack', Last(frames').slot) = stack'[CalleeIndex]
          /\ At(objects', At(stack', Last(frames').slot).v).object.class
                 = peek(Cur, CurInstr.a).v
    /\ CallOnBoundMethod /\ OpCall /\ Len(frames') > Len(frames) =>
          At(stack', Last(frames').slot) = Obj(Cur, peek(Cur, CurInstr.a).v).receiver
    /\ InvokeOnBoundField /\ OpInvoke /\ Len(frames') > Len(frames) =>
          At(stack', Last(frames').slot) = Obj(Cur, InvokeField.v).receiver
    /\ InvokeOnMethod /\ OpInvoke /\ Len(frames') > Len(frames) =>
          At(stack', Last(frames').slot) = peek(Cur, CurInstr.b)
    /\ AtSuperInvoke /\ OpSuperInvoke /\ Len(frames') > Len(frames) =>
          /\ At(stack', Last(frames').slot) = peek(Cur, CurInstr.b + 1)
          /\ At(stack', Last(frames').slot) = At(stack, current_frame(Cur).slot)

\* Frame k runs a closure that some class has in its method table, and its
\* slot 0 is on the stack.
MethodClosure(h) ==
    \E c \in 0..(Len(objects) - 1) :
        /\ IsA(Cur, c, "Class")
        /\ \E n \in DOMAIN Obj(Cur, c).methods :
              Obj(Cur, c).methods[n] = [t |-> "Closure", v |-> h]
MethodFrame(k) ==
    /\ k \in 2..Len(frames)
    /\ MethodClosure(frames[k].closure)
    /\ frames[k].slot < Len(stack)
AssignsSlot0(k) == k = Len(frames) /\ AtOp("SetLocal") /\ CurInstr.a = 0

\* A method frame that is still on the frame stack after the step has the same
\* value at its slot 0, unless the step is its own assignment to slot 0.
ReceiverKept ==
    \A k \in 2..Len(frames) :
        ( /\ MethodFrame(k)
          /\ ~AssignsSlot0(k)
          /\ k <= Len(frames')
          /\ frames'[k].closure = frames[k].closure
          /\ frames'[k].slot = frames[k].slot ) =>
            /\ frames[k].slot < Len(stack')
            /\ At(stack', frames[k].slot) = At(stack, frames[k].slot)

\* C22: a frame pushed for a method or initializer through a class call, a
\* bound-method call, INVOKE resolved in the class's method table or
\* SUPER_INVOKE has the receiver instance at its slot 0, and the slot keeps that
\* value for as long as the frame is on the frame stack unless the method body
\* assigns to it.
C22_ReceiverAtSlotZero == [][ReceiverPlaced /\ ReceiverKept]_vars

\* INVOKE is about to execute on a receiver that is an instance.
InvokeOnAnInstance ==
    /\ AtOp("Invoke")
    /\ Len(stack) > CurInstr.b
    /\ peek(Cur, CurInstr.b).t = "Instance"
    /\ IsA(Cur, peek(Cur, CurInstr.b).v, "Instance")
    /\ Const(Cur, CurInstr.a).t = "VString"
InvokeArgs == SubSeq(stack, Len(stack) - CurInstr.b + 1, Len(stack))

\* GET_PROPERTY(name) executed with the receiver on top, before the arguments
\* are pushed, and then CALL(argc) with the arguments above its result.
PropertyGot ==
    DoGetProperty([Advance(Cur) EXCEPT !.stack = SubSeq(stack, 1, Len(stack) - CurInstr.b)],
                  Ins1("GetProperty", CurInstr.a))
PropertyCalled ==
    IF PropertyGot.status # "running" THEN PropertyGot
    ELSE DoCall([PropertyGot EXCEPT !.stack = @ \o InvokeArgs], Ins1("Call", CurInstr.b))

SameAsPropertyCall ==
    /\ status' = PropertyCalled.status
    /\ status' # "running" => message' = PropertyCalled.message
    /\ stack' = PropertyCalled.stack
    /\ frames' = PropertyCalled.frames

\* C23: on a receiver that is an instance, INVOKE(name, argc) leaves the value
\* stack, the frame stack and the error outcome as GET_PROPERTY(name) on the
\* receiver followed by CALL(argc) leaves them, for every name, copy and
\* toString included: a field comes before a class method, and a class method
\* before a built-in.
C23_InvokeIsPropertyCall == [][(InvokeOnAnInstance /\ OpInvoke) => SameAsPropertyCall]_vars

\* INHERIT is about to execute with the new class on top of the stack, and a
\* class or another value below it.
AtInherit ==
    /\ AtOp("Inherit")
    /\ Len(stack) >= 2
    /\ peek(Cur, 0).t = "Class"
    /\ IsA(Cur, peek(Cur, 0).v, "Class")
InheritFromClass ==
    /\ AtInherit
    /\ peek(Cur, 1).t = "Class"
    /\ IsA(Cur, peek(Cur, 1).v, "Class")
InheritFromOther == AtInherit /\ peek(Cur, 1).t # "Class"

\* Every entry of the superclass's method table is in the new class's table.
EntriesCopied ==
    \A n \in DOMAIN MethodsOf(peek(Cur, 1).v) :
        /\ n \in DOMAIN At(objects', peek(Cur, 0).v).object.methods
        /\ At(objects', peek(Cur, 0).v).object.methods[n] = MethodsOf(peek(Cur, 1).v)[n]

\* The refusal: the error, and no method table of any class changed.
InheritRefused ==
    /\ status' = "runtime_error"
    /\ message' = "Superclass must be a class."
    /\ \A h \in 0..(Len(objects) - 1) :
          IsA(Cur, h, "Class") => At(objects', h) = At(objects, h)

\* C24 as stated: INHERIT copies the superclass's method table entries into the
\* new class and pops the superclass, the new class staying on top of a stack
\* one shorter; a value below the top that is not a class is the runtime error
\* "Superclass must be a class." and no table changes.
C24_InheritPopsSuperclass ==
    [][ /\ (InheritFromClass /\ OpInherit) =>
              /\ status' = "running"
              /\ EntriesCopied
              /\ stack' = Take(stack, Len(stack) - 2) \o <<peek(Cur, 0)>>
        /\ (InheritFromOther /\ OpInherit) => InheritRefused ]_vars

\* C24 (amended): INHERIT copies the superclass's method table entries into the
\* new class and pops the new class, the superclass staying on top of a stack
\* one shorter; a value below the top that is not a class is the runtime error
\* "Superclass must be a class." and no table changes.
C24_InheritPopsNewClass ==
    [][ /\ (InheritFromClass /\ OpInherit) =>
              /\ status' = "running"
              /\ EntriesCopied
              /\ stack' = Take(stack, Len(stack) - 1)
        /\ (InheritFromOther /\ OpInherit) => InheritRefused ]_vars

\* INHERIT has just run: the superclass, with methods, is on top of the stack
\* and another class has its entries.
C24_Witness ==
    /\ status = "running"
    /\ last_op.op = "Inherit"
    /\ stack # << >>
    /\ peek(Cur, 0).t = "Class"
    /\ IsA(Cur, peek(Cur, 0).v, "Class")
    /\ MethodsOf(peek(Cur, 0).v) # EmptyTable
    /\ \E h \in 0..(Len(objects) - 1) :
          /\ h # peek(Cur, 0).v
          /\ IsA(Cur, h, "Class")
          /\ MethodsOf(h) = MethodsOf(peek(Cur, 0).v)

\* The upvalue cells of the heap before the step, and what handle h is after it.
UpvalueCells == {h \in 0..(Len(objects) - 1) : IsA(Cur, h, "Upvalue")}
CellOpen(h) == Obj(Cur, h).closed = NoneV
CellListed(h) == \E k \in 1..Len(open_upvalues) : open_upvalues[k] = h
CellAfter(h) ==
    /\ h < Len(objects')
    /\ At(objects', h).live
    /\ At(objects', h).object.kind = "Upvalue"
CellOpenAfter(h) == At(objects', h).object.closed = NoneV
CellListedAfter(h) == \E k \in 1..Len(open_upvalues') : open_upvalues'[k] = h

\* The cell that operand a of the instruction about to execute names.
AtUpvalueOp(op) ==
    /\ AtOp(op)
    /\ CurInstr.a < Len(current_closure(Cur).upvalues)
    /\ IsA(Cur, At(current_closure(Cur).upvalues, CurInstr.a), "Upvalue")
OperandCell == At(current_closure(Cur).upvalues, CurInstr.a)

\* A cell that the step creates is open.
CreatedOpen ==
    \A h \in 0..(Len(objects') - 1) :
        (CellAfter(h) /\ h \notin UpvalueCells) => CellOpenAfter(h)

\* An open cell closes only as it leaves the list, on the value of its slot,
\* and leaves the list only by closing.
ClosesOnRemoval ==
    \A h \in UpvalueCells :
        (CellOpen(h) /\ CellAfter(h)) =>
            /\ ~CellOpenAfter(h) =>
                  /\ CellListed(h)
                  /\ ~CellListedAfter(h)
                  /\ Obj(Cur, h).location < Len(stack)
                  /\ At(objects', h).object.closed = At(stack, Obj(Cur, h).location)
            /\ (CellListed(h) /\ ~CellListedAfter(h)) => ~CellOpenAfter(h)

\* A closed cell that something refers to stays closed, and its value changes
\* only by SET_UPVALUE on it.
StaysClosed ==
    \A h \in UpvalueCells :
        (~CellOpen(h) /\ h \in Reachable) =>
            /\ CellAfter(h)
            /\ ~CellOpenAfter(h)
            /\ ~(AtUpvalueOp("SetUpvalue") /\ OperandCell = h) =>
                  At(objects', h).object.closed = Obj(Cur, h).closed

\* GET_UPVALUE and SET_UPVALUE on a closed cell use its value, not the stack.
ClosedCellAccess ==
    /\ (AtUpvalueOp("GetUpvalue") /\ ~CellOpen(OperandCell) /\ OpGetUpvalue) =>
          stack' = Append(stack, Obj(Cur, OperandCell).closed)
    /\ (AtUpvalueOp("SetUpvalue") /\ ~CellOpen(OperandCell) /\ stack # << >> /\ OpSetUpvalue) =>
          /\ stack' = stack
          /\ At(objects', OperandCell).object.closed = peek(Cur, 0)

\* C25: every upvalue cell is created open, closes at most once, at the moment
\* it is removed from the open-upvalue list and on the value its stack slot
\* holds then, and never opens again; on a closed cell GET_UPVALUE and
\* SET_UPVALUE read and write the closed value and never the stack.
C25_UpvalueLifecycle ==
    [][CreatedOpen /\ ClosesOnRemoval /\ StaysClosed /\ ClosedCellAccess]_vars

\* SET_UPVALUE has just written the closed cell of the running closure: the
\* cell is off the list and holds the value on top of the stack.
C25_Witness ==
    /\ status = "running"
    /\ last_op.op = "SetUpvalue"
    /\ stack # << >>
    /\ \E h \in UpvalueCells :
          /\ ~CellOpen(h)
          /\ ~CellListed(h)
          /\ Obj(Cur, h).closed = peek(Cur, 0)
          /\ \E k \in 1..Len(current_closure(Cur).upvalues) :
                current_closure(Cur).upvalues[k] = h

\* The sum of the sizes recorded in the live slots of a heap.
LiveSizes(objs) == SumSeq([k \in 1..Len(objs) |-> IF objs[k].live THEN objs[k].size ELSE 0])
Unreached(reach) == {h \in 0..(Len(objects) - 1) : Live(Cur, h) /\ h \notin reach}
SizeOfAll(hs) ==
    SumSeq([k \in 1..Len(objects) |-> IF (k - 1) \in hs THEN objects[k].size ELSE 0])

\* bytes_allocated is the sum of the sizes recorded in the live slots, and the
\* free list holds the empty slots, each once.
BytesAreLiveSizes ==
    /\ bytes_allocated = LiveSizes(objects)
    /\ \A h \in 0..(Len(objects) - 1) :
          ~Live(Cur, h) <=> \E k \in 1..Len(free_slots) : free_slots[k] = h
    /\ \A j, k \in 1..Len(free_slots) : free_slots[j] = free_slots[k] => j = k

\* A collection begun in this state, if it ends, empties the slot of every
\* object that no root reaches, puts its index on the free list, and takes
\* the sizes recorded for the objects it frees off bytes_allocated.
CollectionFrees ==
    \E after \in {gc_collect_garbage(mark_roots(Cur))} :
        after.status # "panic" =>
            /\ \A h \in Unreached(Reachable) :
                  /\ ~At(after.objects, h).live
                  /\ \E k \in 1..Len(after.free_slots) : after.free_slots[k] = h
            /\ \E freed \in {{h \in 0..(Len(objects) - 1) :
                                 Live(Cur, h) /\ ~At(after.objects, h).live}} :
                  after.bytes_allocated = bytes_allocated - SizeOfAll(freed)
            /\ after.bytes_allocated = LiveSizes(after.objects)

\* C26: after a collection every slot whose object no root reached is empty and
\* on the free list, and bytes_allocated is less by the sizes recorded for the
\* freed objects; bytes_allocated is always the sum of the sizes recorded in
\* the live slots (while the process has not panicked).
C26_SweepAccounting == status # "panic" => (BytesAreLiveSizes /\ CollectionFrees)

\* Collections have run and freed slots, and objects that no root reaches are
\* in the heap again, which a collection begun now would free.
C26_Witness ==
    /\ status = "running"
    /\ gc_cycles > 0
    /\ free_slots # << >>
    /\ Unreached(Reachable) # {}
    /\ gc_collect_garbage(mark_roots(Cur)).status # "panic"
    /\ gc_collect_garbage(mark_roots(Cur)).bytes_allocated < bytes_allocated

\* No live object of the heap is marked, and the grey worklist is empty.
MarksClear(objs, grey) ==
    /\ \A k \in 1..Len(objs) : objs[k].live => ~objs[k].is_marked
    /\ grey = << >>

\* A collection begun in this state, if it ends, leaves the marks clear.
CollectionClearsMarks ==
    \E after \in {gc_collect_garbage(mark_roots(Cur))} :
        after.status # "panic" => MarksClear(after.objects, after.grey_stack)

\* C27: between collections (before mark_roots starts and after collect_garbage
\* has returned) every live object has its mark bit clear and the grey worklist
\* is empty, whatever allocations and collections came before (while the
\* process has not panicked).
C27_MarksClearOutsideCollection ==
    status # "panic" => (MarksClear(objects, grey_stack) /\ CollectionClearsMarks)

\* Several collections have run, freeing some objects and keeping others.
C27_Witness ==
    /\ status = "running"
    /\ gc_cycles > 1
    /\ free_slots # << >>
    /\ \E h \in 0..(Len(objects) - 1) : Live(Cur, h) /\ h \in HandlesOf(stack)
    /\ mark_roots(Cur).grey_stack # << >>

\* Every entry of an intern table maps its key to a live slot that holds a
\* string equal to the key.
InternTableSound(strs, objs) ==
    \A s \in DOMAIN strs :
        /\ strs[s] >= 0 /\ strs[s] < Len(objs)
        /\ At(objs, strs[s]).live
        /\ At(objs, strs[s]).object = StringObj(s)

\* A collection begun in this state, if it ends, frees every interned string
\* that no root reaches and removes its entry, so that interning the content
\* again allocates a string.
CollectionReclaimsStrings ==
    \E after \in {gc_collect_garbage(mark_roots(Cur))} :
        after.status # "panic" =>
            /\ InternTableSound(after.strings, after.objects)
            /\ \E reach \in {Reachable} :
                  \A s \in DOMAIN strings :
                      strings[s] \notin reach =>
                          /\ s \notin DOMAIN after.strings
                          /\ ~At(after.objects, strings[s]).live
                          /\ \E again \in {GcIntern(after, s)} :
                                /\ again.bytes_allocated > after.bytes_allocated
                                /\ InternTableSound(again.strings, again.objects)
                                /\ s \in DOMAIN again.strings
                                /\ again.strings[s] = again.ret

\* C28: whatever interning, allocation and collection came before, every entry
\* of the intern table maps its key to a live slot holding a string equal to
\* the key; a collection reclaims an interned string that nothing refers to and
\* removes its entry, so that a later intern of the content allocates a string
\* (while the process has not panicked).
C28_InternTableSound ==
    status # "panic" => (InternTableSound(strings, objects) /\ CollectionReclaimsStrings)

\* After a collection an interned string that no root reaches is in the
\* table, and a collection begun now would end.
C28_Witness ==
    /\ status = "running"
    /\ gc_cycles > 0
    /\ \E s \in DOMAIN strings : strings[s] \notin Reachable
    /\ gc_collect_garbage(mark_roots(Cur)).status # "panic"
    /\ DOMAIN gc_collect_garbage(mark_roots(Cur)).strings # DOMAIN strings

\* C29: a collection begun in any state of a process that has not panicked
\* ends normally: the grey worklist drains and the sweep completes, for every
\* heap graph the program can build, cyclic ones and an instance that holds
\* itself in one of its fields included.
C29_CollectionTerminates ==
    status # "panic" => gc_collect_garbage(mark_roots(Cur)).status # "panic"

\* GET_PROPERTY is about to execute with an instance on top of the stack, or
\* with another value there.
AtGetProperty ==
    /\ AtOp("GetProperty")
    /\ stack # << >>
    /\ Const(Cur, CurInstr.a).t = "VString"
GetOnInstance ==
    /\ AtGetProperty
    /\ peek(Cur, 0).t = "Instance"
    /\ IsA(Cur, peek(Cur, 0).v, "Instance")
    /\ IsA(Cur, Obj(Cur, peek(Cur, 0).v).class, "Class")
PropertyName == Const(Cur, CurInstr.a).v
PropertyFields == Obj(Cur, peek(Cur, 0).v).fields
PropertyMethods == MethodsOf(Obj(Cur, peek(Cur, 0).v).class)

\* The top of the stack after the step is a bound method of the receiver and
\* the class's method; the rest of the stack is as it was.
BoundMethodPushed ==
    /\ Len(stack') = Len(stack)
    /\ Front(stack') = Front(stack)
    /\ Last(stack').t = "BoundMethod"
    /\ Last(stack').v < Len(objects')
    /\ At(objects', Last(stack').v).live
    /\ At(objects', Last(stack').v).object =
           BoundMethodObj(peek(Cur, 0), PropertyMethods[PropertyName].v)

GetPropertyReads ==
    /\ (GetOnInstance /\ OpGetProperty) =>
          IF PropertyName \in DOMAIN PropertyFields
          THEN /\ status' = "running"
               /\ stack' = Append(Front(stack), PropertyFields[PropertyName])
          ELSE IF PropertyName \in DOMAIN PropertyMethods
          THEN status' = "running" /\ BoundMethodPushed
          ELSE /\ status' = "runtime_error"
               /\ message' = UndefinedProperty(Cur, PropertyName)
    /\ (AtGetProperty /\ peek(Cur, 0).t # "Instance" /\ OpGetProperty) =>
          /\ status' = "runtime_error"
          /\ message' = "Only instances have properties."

\* SET_PROPERTY is about to execute with an instance one below the top.
SetOnInstance ==
    /\ AtOp("SetProperty")
    /\ Len(stack) >= 2
    /\ Const(Cur, CurInstr.a).t = "VString"
    /\ peek(Cur, 1).t = "Instance"
    /\ IsA(Cur, peek(Cur, 1).v, "Instance")

SetPropertyWrites ==
    (SetOnInstance /\ OpSetProperty) =>
        /\ status' = "running"
        /\ stack' = Append(Take(stack, Len(stack) - 2), peek(Cur, 0))
        /\ At(objects', peek(Cur, 1).v).object =
               [Obj(Cur, peek(Cur, 1).v) EXCEPT
                   !.fields = TableInsert(@, PropertyName, peek(Cur, 0))]

\* C30: GET_PROPERTY(name) on an instance replaces it with the field's value
\* when the instance has the field (a field shadows a method of the name),
\* otherwise with a bound method of that instance and the class's method, and
\* is a runtime error when there is neither or the top value is not an
\* instance; SET_PROPERTY(name) writes the top value into the instance one
\* below and leaves the assigned value in place of the two.
C30_PropertyAccess == [][GetPropertyReads /\ SetPropertyWrites]_vars

\* GET_PROPERTY has just read a field of the name of one of the class's
\* methods: the field's value, not a bound method, is on top of the stack.
C30_Witness ==
    /\ status = "running"
    /\ last_op.op = "GetProperty"
    /\ stack # << >>
    /\ peek(Cur, 0) = Number(2)
    /\ \E h \in 0..(Len(objects) - 1) :
          /\ IsA(Cur, h, "Instance")
          /\ IsA(Cur, Obj(Cur, h).class, "Class")
          /\ \E n \in DOMAIN Obj(Cur, h).fields :
                /\ Obj(Cur, h).fields[n] = Number(2)
                /\ n \in DOMAIN MethodsOf(Obj(Cur, h).class)
                /\ n = At(current_function(Cur).constants, last_op.a).v

-----------------------------------------------------------------------------
(* Locals and scopes *)

\* The definitions of locals that the parser recorded for the function of
\* the current frame, when that function was compiled by the last compilation.
LocalsOfFrame ==
    {k \in 1..Len(parser.marks) :
        /\ parser.marks[k].ev = "local"
        /\ \E c \in 1..Len(parser.compiled) :
              /\ parser.compiled[c].name = parser.marks[k].fn
              /\ parser.compiled[c].function = current_closure(Cur).function}

\* The locals whose value the frame has just computed: the instruction after
\* the initializer is the next one.  Of the parameters, which are all defined
\* before the first instruction, the last one is on top.
JustDefined ==
    {k \in LocalsOfFrame :
        /\ parser.marks[k].at = current_frame(Cur).ip
        /\ \A j \in LocalsOfFrame :
              parser.marks[j].at = parser.marks[k].at
                  => parser.marks[j].index <= parser.marks[k].index}

\* C31: when the value of a local has been computed, it lies at the offset
\* from the base of the frame that is the index the compiler gave the local,
\* which is where GET_LOCAL and SET_LOCAL look for it.
C31_LocalsAtCompiledSlots ==
    (status = "running" /\ frames # << >> /\ IsA(Cur, current_frame(Cur).closure, "Closure"))
        => \A k \in JustDefined :
              Len(stack) - 1 = current_frame(Cur).slot + parser.marks[k].index

\* The same in the first run of a session.
C31_FirstRun == runs = 1 => C31_LocalsAtCompiledSlots

\* The indices of the locals declared in the scope that is open in the
\* current function.
DeclaredInScope ==
    {i \in 1..Len(compiler_of(parser).locals) :
        compiler_of(parser).locals[i].depth = compiler_of(parser).scope_depth}

\* What the end of a scope emits for a local
ScopeEndOf(local) == IF local.is_captured THEN Ins("CloseUpvalue") ELSE Ins("Pop")

\* The end of a scope emits one instruction for each local declared in the
\* scope, the last declared first, and removes those locals and no other.
ScopeEndPopsItsLocals ==
    LET locals == compiler_of(parser).locals
        n == Cardinality(DeclaredInScope)
    IN /\ DeclaredInScope = (Len(locals) - n + 1)..Len(locals)
       /\ Len(parser'.code) = n
       /\ \A j \in 1..n : parser'.code[j] = ScopeEndOf(locals[Len(locals) - j + 1])
       /\ compiler_of(parser').locals = SubSeq(locals, 1, Len(locals) - n)
       /\ compiler_of(parser').scope_depth = compiler_of(parser).scope_depth - 1

\* C31, for the compiler: how a scope ends.
C31_ScopeEnd == [][last_op'.op = "EndScope" => ScopeEndPopsItsLocals]_vars

\* A scope ended with a captured local declared before one that is not.
C31_ScopeEndWitness ==
    /\ last_op.op = "EndScope"
    /\ parser.code = <<Ins("Pop"), Ins("CloseUpvalue")>>

-----------------------------------------------------------------------------
(* Upvalue descriptors *)

\* The names of the locals of a compiler
LocalNames(compiler) == {compiler.locals[i].name : i \in 1..Len(compiler.locals)}

\* The step resolved a name that is not a local of the current function and
\* is a local of a function that encloses it.
ResolvesEnclosingLocal ==
    /\ last_op'.op = "Variable"
    /\ last_op'.name \notin LocalNames(compiler_of(parser))
    /\ \E e \in 1..(Len(parser.compilers) - 1) :
          last_op'.name \in LocalNames(parser.compilers[e])

\* The nearest enclosing function that has the local: its level in the chain
Owner ==
    CHOOSE e \in 1..(Len(parser.compilers) - 1) :
        /\ last_op'.name \in LocalNames(parser.compilers[e])
        /\ \A j \in (e + 1)..(Len(parser.compilers) - 1) :
              last_op'.name \notin LocalNames(parser.compilers[j])

\* The local of the owner the name stands for: the last declared, as an index
OwnedLocal ==
    CHOOSE i \in 1..Len(parser.compilers[Owner].locals) :
        /\ parser.compilers[Owner].locals[i].name = last_op'.name
        /\ \A j \in (i + 1)..Len(parser.compilers[Owner].locals) :
              parser.compilers[Owner].locals[j].name # last_op'.name

\* Where the descriptor of the variable is in the upvalues of the function at
\* level k after the step, from 0; -1 when there is none.  The function next
\* to the owner captures the local, a function further in captures the
\* upvalue of the one that encloses it.
RECURSIVE Threaded(_)
Threaded(k) ==
    LET want == IF k = Owner + 1 THEN Up(OwnedLocal - 1, TRUE)
                ELSE Up(Threaded(k - 1), FALSE)
        at == {i \in 1..Len(parser'.compilers[k].upvalues) :
                  parser'.compilers[k].upvalues[i] = want}
    IN IF at = {} THEN -1 ELSE (CHOOSE i \in at : TRUE) - 1

\* The local is marked captured, every function from the one next to the
\* owner to the current one has the descriptor and gained at most that one,
\* nothing else changed, and the instruction names the upvalue of the
\* current function.
CaptureThreaded ==
    /\ parser'.compilers[Owner].locals[OwnedLocal].is_captured
    /\ \A k \in (Owner + 1)..Len(parser.compilers) :
          /\ Threaded(k) # -1
          /\ \/ parser'.compilers[k].upvalues = parser.compilers[k].upvalues
             \/ parser'.compilers[k].upvalues =
                    Append(parser.compilers[k].upvalues,
                           At(parser'.compilers[k].upvalues, Threaded(k)))
          /\ parser'.compilers[k].locals = parser.compilers[k].locals
    /\ \A k \in 1..Owner :
          /\ parser'.compilers[k].upvalues = parser.compilers[k].upvalues
          /\ \A i \in 1..Len(parser.compilers[k].locals) :
                (k # Owner \/ i # OwnedLocal)
                    => parser'.compilers[k].locals[i] = parser.compilers[k].locals[i]
    /\ parser'.code = <<Ins1("GetUpvalue", Threaded(Len(parser.compilers)))>>

\* No function has two descriptors with the same index and is_local.
DescriptorsDistinct ==
    \A k \in 1..Len(parser.compilers) :
       \A i, j \in 1..Len(parser.compilers[k].upvalues) :
          parser.compilers[k].upvalues[i] = parser.compilers[k].upvalues[j] => i = j

\* The step resolved a name to an upvalue the current function had before.
ResolvesAgain ==
    /\ last_op'.op = "Variable"
    /\ Len(parser'.code) = 1
    /\ parser'.code[1].op = "GetUpvalue"
    /\ \E i \in 1..Len(compiler_of(parser).upvalues) :
          compiler_of(parser).upvalues[i] =
              At(compiler_of(parser').upvalues, parser'.code[1].a)

\* It got the index the descriptor had, and no function gained a descriptor.
SameUpvalue ==
    /\ compiler_of(parser).upvalues[parser'.code[1].a + 1] =
           compiler_of(parser').upvalues[parser'.code[1].a + 1]
    /\ \A k \in 1..Len(parser.compilers) :
          parser'.compilers[k].upvalues = parser.compilers[k].upvalues

\* C32: resolving a name that is a local of an enclosing function marks the
\* local captured and threads one descriptor through each function between;
\* the descriptors of a function are distinct; and resolving a name again in
\* the same function gives the same upvalue.
C32_UpvalueResolution ==
    [][/\ DescriptorsDistinct'
       /\ ResolvesEnclosingLocal => CaptureThreaded
       /\ ResolvesAgain => SameUpvalue]_vars

\* A name was resolved through a function between the owner and the current
\* one, after the current function had resolved it and then another name.
C32_Witness ==
    /\ last_op.op = "Variable"
    /\ Len(parser.compilers) = 3
    /\ last_op.name \in LocalNames(parser.compilers[1])
    /\ last_op.name \notin LocalNames(parser.compilers[2])
    /\ last_op.name \notin LocalNames(parser.compilers[3])
    /\ parser.code = <<Ins1("GetUpvalue", 0)>>
    /\ parser.compilers[3].upvalues = <<Up(0, FALSE), Up(1, TRUE)>>
    /\ parser.compilers[2].upvalues = <<Up(1, TRUE)>>

-----------------------------------------------------------------------------
(* and, or *)

\* The places of the given kinds that the parser recorded for the function
\* of the current frame, when the last compilation compiled it.
MarksOfFrame(evs) ==
    {k \in 1..Len(parser.marks) :
        /\ parser.marks[k].ev \in evs
        /\ \E c \in 1..Len(parser.compiled) :
              /\ parser.compiled[c].name = parser.marks[k].fn
              /\ parser.compiled[c].function = current_closure(Cur).function}

\* nil and false, and nothing else
Falsey(value) == value.t = "Nil" \/ value = Bool(FALSE)

Top == Last(stack)
IpAfter == Last(frames').ip

\* JUMP_IF_FALSE leaves the stack as it is, and jumps when the top is falsey.
JumpIfFalseTests ==
    (HasInstr /\ CurInstr.op = "JumpIfFalse" /\ stack # << >>)
        => /\ stack' = stack
           /\ Len(frames') = Len(frames)
           /\ IpAfter = IF Falsey(Top) THEN Ip + 1 + CurInstr.a ELSE Ip + 1

\* At the jump of an `and`: a falsey left operand stays as the result and the
\* right operand is skipped; otherwise the next instruction pops the left
\* operand and the right operand follows.
AndDecides ==
    HasInstr =>
        \A k \in MarksOfFrame({"and"}) :
            parser.marks[k].at = Ip =>
                /\ stack' = stack
                /\ IF Falsey(Top) THEN IpAfter = parser.marks[k].end
                   ELSE /\ IpAfter = Ip + 1
                        /\ At(current_function(Cur).code, Ip + 1).op = "Pop"
                        /\ Ip + 1 < parser.marks[k].end

\* At the jump of an `or`: a truthy left operand stays and the next
\* instruction jumps over the right operand; otherwise the next instruction
\* pops the left operand and the right operand follows.
OrDecides ==
    HasInstr =>
        \A k \in MarksOfFrame({"or"}) :
            /\ parser.marks[k].at = Ip =>
                  /\ stack' = stack
                  /\ IF Falsey(Top)
                     THEN /\ IpAfter = Ip + 2
                          /\ At(current_function(Cur).code, Ip + 2).op = "Pop"
                          /\ Ip + 2 < parser.marks[k].end
                     ELSE /\ IpAfter = Ip + 1
                          /\ At(current_function(Cur).code, Ip + 1).op = "Jump"
            /\ parser.marks[k].at + 1 = Ip =>
                  /\ stack' = stack
                  /\ IpAfter = parser.marks[k].end

\* The last compilation was that of the script of ProgLogic.
IsLogic ==
    Cardinality({k \in 1..Len(parser.marks) : parser.marks[k].ev \in {"and", "or"}}) = 9

\* What that script prints when it is the first of a session: the operand
\* that decides, 0 and "" being truthy, and g as it was (PRINT writes a
\* string between quotes); every expression left one value, which PRINT took.
LogicResults ==
    (runs = 1 /\ status = "ok" /\ IsLogic)
        => /\ output = <<"nil", "true", "0", "false", "1", "1", "2", "2", "0", "\"\"">>
           /\ Len(stack) = 1

\* C33: `and` and `or` leave one value, the operand that decides; the right
\* operand is not executed when the left one decides; only nil and false are
\* falsey; JUMP_IF_FALSE never changes the stack.
C33_ShortCircuit ==
    /\ []LogicResults
    /\ [][JumpIfFalseTests /\ AndDecides /\ OrDecides]_vars

\* The script of ProgLogic ran to its end in the first call of a session.
C33_Witness == runs = 1 /\ status = "ok" /\ IsLogic

-----------------------------------------------------------------------------
(* The lines of a chunk *)

RECURSIVE SumOfCounts(_)
SumOfCounts(lines) ==
    IF lines = << >> THEN 0 ELSE lines[1].count + SumOfCounts(Tail(lines))

\* C34: after any writes, get_line gives for every instruction the line it
\* was written with, and the lengths of the runs add up to the number of
\* instructions.
C34_LinesOfWrites ==
    /\ \A i \in 0..(Len(parser.code) - 1) : get_line(parser, i) = At(output, i)
    /\ SumOfCounts(parser.lines) = Len(parser.code)

\* Five writes made three runs, the line of the first run coming back in the
\* last.
C34_Witness ==
    /\ Len(parser.code) = 5
    /\ Len(parser.lines) = 3
    /\ parser.lines[1].count = 2
    /\ parser.lines[3].line = parser.lines[1].line

-----------------------------------------------------------------------------
(* Indexing an array *)

\* The instruction about to run is `op`, with a number as index `d` below the
\* top and a live array just below the index.
IndexOnArray(op, d) ==
    /\ AtOp(op)
    /\ Len(stack) >= d + 2
    /\ stack[Len(stack) - d].t = "Number"
    /\ stack[Len(stack) - d - 1].t = "Array"
    /\ IsA(Cur, stack[Len(stack) - d - 1].v, "Array")
IndexOf(d) == stack[Len(stack) - d].v
ArrayOf(d) == stack[Len(stack) - d - 1].v
ElementsOf(objs, h) == objs[h + 1].object.elems
IndexInRange(d) == 0 <= IndexOf(d) /\ IndexOf(d) < Len(ElementsOf(objects, ArrayOf(d)))

\* a[i] with i in range pushes element i in place of the array and the index.
GetReadsElement ==
    /\ status' = "running"
    /\ objects' = objects
    /\ stack' = Append(Take(stack, Len(stack) - 2),
                       ElementsOf(objects, ArrayOf(0))[IndexOf(0) + 1])

\* a[i] = v with i in range writes element i alone and leaves the array on top.
SetWritesElement ==
    /\ status' = "running"
    /\ ElementsOf(objects', ArrayOf(1)) =
           [ElementsOf(objects, ArrayOf(1)) EXCEPT ![IndexOf(1) + 1] = Last(stack)]
    /\ stack' = Append(Take(stack, Len(stack) - 3), ArrayV(ArrayOf(1)))

\* The index is refused: a runtime error, and no array is touched.
IndexRefused == status' = "runtime_error" /\ objects' = objects

GetIndexChecked ==
    IndexOnArray("GetIndexArray", 0) =>
        IF IndexInRange(0) THEN GetReadsElement ELSE IndexRefused
SetIndexChecked ==
    IndexOnArray("SetIndexArray", 1) =>
        IF IndexInRange(1) THEN SetWritesElement ELSE IndexRefused

\* C35: GET_INDEX_ARRAY and SET_INDEX_ARRAY access element i only when
\* 0 <= i < length; any other index yields a runtime error, and never reads or
\* writes another element nor aborts the process.  (The numbers of the model
\* are integers, so the fractional case is not among its indices.)
C35_IndexChecked == [][GetIndexChecked /\ SetIndexChecked]_vars

\* With the index in range, element i and no other is read or written.
C35_InRangeAccess ==
    [][/\ (IndexOnArray("GetIndexArray", 0) /\ IndexInRange(0)) => GetReadsElement
       /\ (IndexOnArray("SetIndexArray", 1) /\ IndexInRange(1)) => SetWritesElement]_vars

\* A negative index reads element 0, and an index past the end aborts.
C35_NegativeReadsFirst ==
    /\ last_op.op = "GetIndexArray"
    /\ status = "running"
    /\ output = <<"2">>
    /\ Top = Number(1)
C35_PastEndAborts ==
    /\ last_op.op = "GetIndexArray"
    /\ status = "panic"
    /\ message = "index out of bounds"
    /\ output = <<"2", "1", "3">>

-----------------------------------------------------------------------------
(* Built-in methods *)

\* The INVOKE about to run has a string, a number or an array as receiver.
InvokeOnBuiltin ==
    /\ AtOp("Invoke")
    /\ Len(stack) >= CurInstr.b + 1
    /\ stack[Len(stack) - CurInstr.b].t \in {"VString", "Number", "Array"}
InvokedMethod == Obj(Cur, Const(Cur, CurInstr.a).v).s

\* The receiver and the arguments are gone and one result is in their place.
OneResultForCall ==
    /\ Len(stack') = Len(stack) - CurInstr.b
    /\ Take(stack', Len(stack') - 1) = Take(stack, Len(stack) - CurInstr.b - 1)

\* C36: every built-in method dispatched by INVOKE(name, argc) on a string,
\* number or array receiver that succeeds removes the receiver and its argc
\* arguments and pushes exactly one result: the stack is argc shorter.
C36_BuiltinStackEffect ==
    [][(InvokeOnBuiltin /\ status' = "running") => OneResultForCall]_vars

\* The same for every built-in method but ord and pow.
C36_OtherBuiltins ==
    [][(InvokeOnBuiltin /\ status' = "running" /\ InvokedMethod \notin {"ord", "pow"})
          => OneResultForCall]_vars

\* ord leaves its receiver below the result, and so does pow.
C36_OrdKeepsReceiver ==
    /\ last_op.op = "Invoke"
    /\ status = "running"
    /\ Len(stack) >= 2
    /\ stack[Len(stack) - 1].t = "VString"
    /\ Top = Number(97)
C36_PowKeepsReceiver ==
    /\ last_op.op = "Invoke"
    /\ status = "running"
    /\ Len(stack) >= 2
    /\ stack[Len(stack) - 1] = Number(2)
    /\ Top = Number(8)

-----------------------------------------------------------------------------
(* for *)

ForsOfFrame == MarksOfFrame({"for"})

\* A step of the frame on top that neither calls nor returns nor fails.
StepInFrame ==
    /\ HasInstr
    /\ status' = "running"
    /\ Len(frames') = Len(frames)

\* Where the condition clause ends, and where the body loops back to.
CondEnd(m) == IF m.incr # -1 THEN m.incr ELSE m.body
AfterBody(m) == IF m.incr # -1 THEN m.incr ELSE m.cond

\* The order of the clauses of the `for` recorded as m: the statement is
\* entered at its start; the initializer leads to the condition and is never
\* come back to; the jump of the condition leaves the loop when the value on
\* top is falsey and goes on to the body otherwise, and nothing else leaves
\* the loop; the body leads to the increment (to the condition when there is
\* none) and the increment to the condition.
ForOrder(m) ==
    /\ (Ip < m.at \/ Ip >= m.end)
          => (IpAfter < m.at \/ IpAfter >= m.end \/ IpAfter = m.at)
    /\ (m.at <= Ip /\ Ip < m.cond) => (m.at <= IpAfter /\ IpAfter <= m.cond)
    /\ (m.cond <= Ip /\ Ip < CondEnd(m))
          => IF Ip = m.exit
             THEN IpAfter = (IF Falsey(Top) THEN m.out ELSE Ip + 1)
             ELSE (m.cond <= IpAfter /\ IpAfter < CondEnd(m)) \/ IpAfter = m.body
    /\ (m.incr # -1 /\ m.incr <= Ip /\ Ip < m.body)
          => ((m.incr <= IpAfter /\ IpAfter < m.body) \/ IpAfter = m.cond)
    /\ (m.body <= Ip /\ Ip < m.out)
          => ((m.body <= IpAfter /\ IpAfter < m.out) \/ IpAfter = AfterBody(m))
    /\ (m.out <= Ip /\ Ip < m.end) => (m.out <= IpAfter /\ IpAfter <= m.end)

ForClausesInOrder == StepInFrame => \A k \in ForsOfFrame : ForOrder(parser.marks[k])

\* The stack index of the function of the frame on top: the base slot of a
\* called frame, and for the script the place of its function on the stack.
FrameBases ==
    IF Len(frames) > 1 THEN {current_frame(Cur).slot}
    ELSE {b \in 0..(Len(stack) - 1) :
             stack[b + 1] = FunctionV(current_closure(Cur).function)}

\* Before the statement and after it the stack holds the locals declared
\* before the statement, and nothing else of the frame.
ForLeavesHeight ==
    HasInstr =>
        \A k \in ForsOfFrame :
            Ip \in {parser.marks[k].at, parser.marks[k].end}
                => \A b \in FrameBases : Len(stack) = b + parser.marks[k].locals

\* The last compilation was that of the script of ProgFor.
IsFor ==
    /\ Cardinality({k \in 1..Len(parser.marks) : parser.marks[k].ev = "for"}) = 2
    /\ \E k \in 1..Len(parser.marks) :
          parser.marks[k].ev = "for" /\ parser.marks[k].exit = -1

\* What that script prints when it is the first of a session: i is 0, then 1,
\* and the condition fails for 2; the loop without a condition is left by its
\* return.
ForResults ==
    (runs = 1 /\ status = "ok" /\ IsFor)
        => output = <<"0", "1", "7">> /\ Len(stack) = 1

\* C37: the code of `for (init; cond; incr) body` runs init once, then cond,
\* body, incr in that order, and exits the first time cond is falsey; with an
\* empty condition the loop never exits through the condition; after the loop
\* the stack is as high as before the statement.
C37_ForLoop ==
    /\ []ForResults
    /\ []ForLeavesHeight
    /\ [][ForClausesInOrder]_vars

\* The script of ProgFor ran to its end in the first call of a session.
C37_Witness == runs = 1 /\ status = "ok" /\ IsFor /\ output = <<"0", "1", "7">>

-----------------------------------------------------------------------------
(* Handles *)

EmptySlots == {h \in 0..(Len(objects) - 1) : ~Live(Cur, h)}

\* The free list holds the indices of the empty slots, each one once.
FreeListIsEmptySlots ==
    /\ {free_slots[k] : k \in 1..Len(free_slots)} = EmptySlots
    /\ \A j, k \in 1..Len(free_slots) : free_slots[j] = free_slots[k] => j = k

\* Gc::alloc in the state as it is: the index it returns held no live object,
\* it is the last index put on the free list, or the end of the vector when
\* the list is empty, and no other slot changes.
AllocOf(object) ==
    \E a \in {GcAlloc(Cur, object)} :
        /\ ~Live(Cur, a.ret)
        /\ a.ret = (IF free_slots = << >> THEN Len(objects) ELSE Last(free_slots))
        /\ IsA(a, a.ret, object.kind)
        /\ Len(a.objects) >= Len(objects)
        /\ \A h \in 0..(Len(objects) - 1) : h # a.ret => At(a.objects, h) = At(objects, h)
AllocTakesEmptySlot == AllocOf(StringObj("x")) /\ AllocOf(ArrayObj(<<Nil>>))

\* A collection begun in the state as it is: every object it leaves is where
\* it was, and so is every object after the allocation that follows it.
CollectionKeepsIndices ==
    \E c \in {gc_collect_garbage(mark_roots(Cur))} :
        c.status # "panic" =>
            /\ Len(c.objects) = Len(objects)
            /\ \A h \in 0..(Len(objects) - 1) :
                  Live(c, h) => (Live(Cur, h) /\ Obj(c, h) = Obj(Cur, h))
            /\ \E a \in {GcAlloc(c, StringObj("x"))} :
                  /\ ~Live(c, a.ret)
                  /\ \A h \in 0..(Len(objects) - 1) :
                        Live(c, h) => (h # a.ret /\ Obj(a, h) = Obj(Cur, h))

\* A step never shortens the vector of slots.
SlotsStay == Len(objects') >= Len(objects)

\* C38: alloc returns an index whose slot holds no live object, the index
\* freed last when the free list is not empty and a new one at the end
\* otherwise; the free list holds exactly the indices of the empty slots,
\* without duplicates; the index of a live object never changes across
\* allocations and collections.
C38_HandlesNeverAlias ==
    /\ [](FreeListIsEmptySlots /\ AllocTakesEmptySlot /\ CollectionKeepsIndices)
    /\ [][SlotsStay]_vars

\* A collection has run, and the array or class just allocated is in a slot
\* that is not the last one: it took a freed slot, while others are empty yet.
C38_Witness ==
    /\ gc_cycles > 0
    /\ last_op.op \in {"BuildList", "Class"}
    /\ status = "running"
    /\ stack # << >>
    /\ Top.t \in {"Array", "Class"}
    /\ Top.v < Len(objects) - 1
    /\ free_slots # << >>

-----------------------------------------------------------------------------
(* The frame of the script *)

\* A step that is a call of Vm::interpret which goes on to run the script.
InterpretRuns == runs' = runs + 1 /\ status' = "running"

\* Vm::interpret pushed the function of the script at the index that was the
\* height of the stack, and the frame it pushed is based there.
ScriptFrameAtScript ==
    /\ Len(stack') = Len(stack) + 1
    /\ Last(stack').t = "Function"
    /\ Last(frames').slot = Len(stack)

\* C39: in every call of interpret the base slot of the frame of the script
\* is the stack index at which the call pushed the function of the script.
C39_ScriptFrameAtScriptSlot == [][InterpretRuns => ScriptFrameAtScript]_vars

\* The same for the calls made when the stack is empty, as it is in the
\* first call of a session.
C39_OnEmptyStack == [][(InterpretRuns /\ stack = << >>) => ScriptFrameAtScript]_vars

-----------------------------------------------------------------------------
(* Compile errors *)

\* A step that is a call of Vm::interpret.
InterpretCalled == runs' = runs + 1

\* The call returned the compile error and ran nothing: the stack, the
\* frames, the globals and the open upvalues are as before the call, and
\* nothing was printed.
CompileErrorReturned ==
    /\ status' = "compile_error"
    /\ stack' = stack
    /\ frames' = frames
    /\ globals' = globals
    /\ open_upvalues' = open_upvalues
    /\ output' = output

\* After a compile error no instruction runs until the next call.
NothingRunsAfterCompileError == status = "compile_error" => ~HasInstr

\* C40: when the compilation reports an error, interpret returns the compile
\* error without executing any instruction, and leaves the value stack, the
\* frame stack, the globals and the open-upvalue list as they were.
C40_CompileErrorLeavesVm ==
    /\ [][(InterpretCalled /\ parser'.had_error) => CompileErrorReturned]_vars
    /\ []NothingRunsAfterCompileError

\* A line with syntax errors was given to a VM whose stack holds the function
\* of an earlier line and whose globals are defined.
C40_Witness ==
    /\ status = "compile_error"
    /\ parser.had_error
    /\ runs = 2
    /\ stack # << >>
    /\ DOMAIN globals # {}

====
